---------------------------- MODULE Spec2Model ----------------------------
(***************************************************************************)
(* VCM Overlay: the contribution workflow of firebase_service.py           *)
(* (save_parameter_to_firebase, check_parameter_changes, refresh_token),   *)
(* the review dialog of vcm_overlay.py (ManagePendingDialog) and the       *)
(* command-line review tool manage_pending.py, over the remote stores      *)
(* users, parameters, pending and rejected_parameters.                     *)
(*                                                                         *)
(* Records are Python dicts: functions from field names to values, a       *)
(* missing key being a field outside the DOMAIN.  Texts (name,             *)
(* description, details and the values derived from them) are sequences    *)
(* of one-character strings so that str.strip() is computed, not assumed.  *)
(* A store is a function from document ids to records.  With Firestore a   *)
(* document id is generated by add(); with the Realtime Database the       *)
(* document id is the param_id under which the node is stored.             *)
(***************************************************************************)
EXTENDS Integers, Sequences, FiniteSets, TLC

VARIABLES
    backend,              \* "firestore" or "rtdb": whether firestore_db is set
    users,                \* the users store: uid -> profile
    parameters,           \* the canonical store
    pending,              \* the pending store
    rejected_parameters,  \* the rejected store
    current_user,         \* firebase_service.current_user of the overlay process
    change_log_button,    \* slot bound to the overlay's change_log_button
    dialog,               \* the ManagePendingDialog (modal)
    cli,                  \* the manage_pending.py session (its own process)
    now,                  \* the store's server clock
    profileChanges,       \* number of edits of the users store made from outside
    nextId,               \* number of document ids add() has generated
    last,                 \* the last submission or review that changed a store
    windows,              \* the windows of the desktop: handle -> window
    vcm_editor,           \* whether a top-level window titled "VCM Editor" exists
    current_parameter_edit_hwnd,  \* the handle the overlay tracks
    last_parameter_text,  \* the last text update_parameter_info has seen
    labels,               \* param_type_label, param_id_label, param_name_label,
                          \* param_desc_label of the overlay
    timer,                \* whether the polling timer is active
    tick_log,             \* what the last tick of the timer did
    contributions,        \* the list the last ChangeLogDialog has loaded
    load_log,             \* the user and the failing read of that load
    inflight,             \* each client's submit or approve that stands between
                          \* two of its store operations
    tree,                 \* the windows below the editor window: handle -> window
    search                \* what the last find_edit_controls on the tree returned

\* the state of the parameter detection
tick_vars == <<windows, vcm_editor, current_parameter_edit_hwnd,
               last_parameter_text, labels, timer, tick_log>>

\* the state of the change log
log_vars == <<contributions, load_log>>

\* the window tree and the search through it
tree_vars == <<tree, search>>

vars == <<backend, users, parameters, pending, rejected_parameters,
          current_user, change_log_button, dialog, cli, now, profileChanges,
          nextId, last, tick_vars, log_vars, inflight, tree_vars>>

---------------------------------------------------------------------------
(* Bounds of the model *)

MaxClock == 3
MaxDocs == 3
MaxAttempts == 3
MaxProfileChanges == 1
MaxValueLen == 3
MaxRestLen == 4
MaxNodes == 4
MaxTokenLen == 3
MaxDepthArg == 2

---------------------------------------------------------------------------
(* Values *)

Uids == {"u1", "u2"}
NoUser == "none"
Email(u) == IF u = "u1" THEN "u1@vcm" ELSE IF u = "u2" THEN "u2@vcm" ELSE "Unknown"

ParamIds == {"12600"}
\* the entries of MODULE_TYPES that the payloads below carry as their type; the
\* tabs of the other module types stay empty
MODULE_TYPES == {"ECM", "TCM"}
AutoIdNames == <<"doc1", "doc2", "doc3", "doc4", "doc5", "doc6">>
AutoIds == {AutoIdNames[i] : i \in 1..MaxDocs}

Whitespace == {" ", "\n"}
TxtA == <<"a">>
TxtAPadded == <<" ", "a", " ">>
TxtB == <<"b">>
TxtN == <<"n">>
EmptyText == <<>>

EmptyDict == <<>>
Has(r, f) == f \in DOMAIN r
Get(r, f, default) == IF f \in DOMAIN r THEN r[f] ELSE default
\* dict.update(d) / document.update(d): the fields of d over those of r
Update(r, d) == d @@ r
\* a delete that leaves the document where it is
Kept(store, id) == store

\* document(id).delete() / child(id).remove()
Remove(store, id) == [x \in (DOMAIN store) \ {id} |-> store[x]]
Pop(r, f) == [x \in (DOMAIN r) \ {f} |-> r[x]]

RECURSIVE lstrip(_)
lstrip(s) == IF Len(s) > 0 /\ Head(s) \in Whitespace THEN lstrip(Tail(s)) ELSE s
RECURSIVE rstrip(_)
rstrip(s) ==
    IF Len(s) > 0 /\ s[Len(s)] \in Whitespace
    THEN rstrip(SubSeq(s, 1, Len(s) - 1)) ELSE s
strip(s) == rstrip(lstrip(s))

\* the payloads a caller hands to save_parameter_to_firebase
Payloads ==
    { [type |-> "ECM", name |-> TxtN, details |-> TxtA],
      [type |-> "ECM", name |-> TxtN, details |-> TxtAPadded],
      [type |-> "TCM", description |-> TxtB] }

\* the payloads of the runs that review: trimming plays no part in a review
ReviewPayloads == {x \in Payloads : x.type = "TCM" \/ x.details = TxtA}

Reasons == {"bad"}

---------------------------------------------------------------------------
(* The remote store *)

NoDocId == "nodoc"

\* the client processes that share the remote store
Clients == {"c1", "c2"}

\* a client that is not inside a submit or an approve
Idle ==
    [pc |-> "idle", user |-> NoUser, key |-> "", store |-> "", found |-> NoDocId,
     data |-> EmptyDict, doc |-> NoDocId]

\* a query that finds no document
QueryFindsNothing(store, p) == {NoDocId}

\* collection.where('param_id', '==', p).limit(1).get(): the documents the
\* query may return (NoDocId stands for the empty result)
QueryByParamId(store, p) ==
    LET hits == {d \in DOMAIN store :
                    Has(store[d], "param_id") /\ store[d]["param_id"] = p}
    IN  IF hits = {} THEN {NoDocId} ELSE hits

\* the record stored for p: a Firestore query by the param_id field, or the
\* Realtime Database node child(p)
Lookup(store, p) ==
    IF backend = "firestore" THEN QueryByParamId(store, p)
    ELSE IF p \in DOMAIN store THEN {p} ELSE {NoDocId}

\* role == 'admin' and trusted, read from the profile of uid in a users store
is_admin(store, uid) ==
    /\ uid \in DOMAIN store
    /\ Get(store[uid], "role", "") = "admin"
    /\ Get(store[uid], "trusted", FALSE)

\* a role check that takes the role alone for the privilege
user_is_admin_by_role(uid) ==
    uid \in DOMAIN users /\ Get(users[uid], "role", "") = "admin"

\* user_is_admin of save_parameter_to_firebase (lines 381 and 440)
user_is_admin(uid) == is_admin(users, uid)

\* what the store and the token service answer during one execution of the body
\* of save_parameter_to_firebase: check says whether the canonical read of
\* check_parameter_changes succeeds, role whether the users read succeeds (the
\* Realtime Database branch swallows its error, the Firestore branch lets it
\* reach the except handler), failAt names what else raises: "refresh" the
\* refresh_token() that opens the Realtime Database branch, "store" a query or
\* a write of the store inside the try block;
\* kind is the raised error's message class and refresh the answer of
\* refresh_token() in the except handler
ErrKinds == {"PERMISSION_DENIED", "UNAUTHORIZED", "OTHER"}
Envs ==
    [check : BOOLEAN, role : BOOLEAN, failAt : {"none", "refresh", "store"},
     kind : ErrKinds, refresh : BOOLEAN]

\* one representative per distinguishable answer: an execution that raises
\* after a canonical read that was answered either ends as it does after a
\* failed read or returns NO_CHANGES as it does when nothing raises
RelevantEnv(e) ==
    /\ (e.failAt = "refresh") => backend = "rtdb"
    /\ (e.failAt # "none") => e.role
    /\ (e.failAt # "none" \/ (backend = "firestore" /\ ~e.role)) => ~e.check
    /\ (e.failAt # "store" /\ (backend = "rtdb" \/ e.role)) => e.kind = "OTHER"
    /\ (e.kind # "UNAUTHORIZED") => e.refresh

\* the answers that send the call into itself again after a token refresh
RetryEnv ==
    [check |-> FALSE, role |-> TRUE, failAt |-> "store", kind |-> "UNAUTHORIZED",
     refresh |-> TRUE]

---------------------------------------------------------------------------
(* firebase_service.py *)

important_fields == {"name", "description", "details"}

new_key(f) ==
    CASE f = "name" -> "new_name"
      [] f = "description" -> "new_description"
      [] f = "details" -> "new_details"
old_key(f) ==
    CASE f = "name" -> "old_name"
      [] f = "description" -> "old_description"
      [] f = "details" -> "old_details"

\* a comparison value that keeps the surrounding whitespace
unstripped(v) == v

\* str(v).strip() if v else ""
stripped(v) == IF Len(v) > 0 THEN strip(v) ELSE EmptyText

\* check_parameter_changes: d is the answer of the canonical lookup, readOk is
\* FALSE when that lookup raises.  existing_data = EmptyDict stands for None.
check_parameter_changes(param_data, readOk, d) ==
    LET existing_data == IF readOk /\ d # NoDocId THEN parameters[d] ELSE EmptyDict
        differs(f) == /\ Has(param_data, f)
                      /\ Has(existing_data, f)
                      /\ stripped(param_data[f]) # stripped(existing_data[f])
    IN  IF ~readOk THEN [has_changes |-> TRUE, existing_data |-> EmptyDict]
        ELSE IF DOMAIN existing_data = {}
        THEN [has_changes |-> TRUE, existing_data |-> EmptyDict]
        ELSE [has_changes |-> \E f \in important_fields : differs(f),
              existing_data |-> existing_data]

\* lines 334-369: the copy of the payload with updated_by, the new_<field> /
\* old_<field> pairs and old_value / new_value
enriched_data(param_data, existing_data, email) ==
    LET pair(f) ==
            IF Has(param_data, f)
            THEN (new_key(f) :> param_data[f])
                 @@ (old_key(f) :> Get(existing_data, f, EmptyText))
            ELSE EmptyDict
        e1 == pair("name") @@ pair("description") @@ pair("details")
              @@ ("updated_by" :> email) @@ param_data
        values ==
            IF Has(e1, "new_details") /\ Has(e1, "old_details")
            THEN ("new_value" :> e1["new_details"]) @@ ("old_value" :> e1["old_details"])
            ELSE IF Has(e1, "new_description") /\ Has(e1, "old_description")
            THEN ("new_value" :> e1["new_description"])
                 @@ ("old_value" :> e1["old_description"])
            ELSE IF Has(e1, "new_name") /\ Has(e1, "old_name")
            THEN ("new_value" :> e1["new_name"]) @@ ("old_value" :> e1["old_name"])
            ELSE EmptyDict
    IN  values @@ e1

Put(store, id, rec) == (id :> rec) @@ store

\* the except handler of save_parameter_to_firebase (lines 469-483); RETRY is
\* the recursive call after a successful refresh_token()
handle_exception(e) ==
    IF e.kind = "PERMISSION_DENIED" THEN "PERMISSION_DENIED"
    ELSE IF e.kind = "UNAUTHORIZED"
    THEN IF e.refresh THEN "RETRY" ELSE "AUTH_ERROR"
    ELSE "ERROR"

\* what one execution leaves behind; check and role tell of a write whether the
\* canonical read and the read of the role were answered before it
Unwritten(result) ==
    [result |-> result, parameters |-> parameters, pending |-> pending,
     added |-> FALSE, stamped |-> FALSE, check |-> TRUE, role |-> TRUE]

Written(result, params, pend, added, e) ==
    [result |-> result, parameters |-> params, pending |-> pend,
     added |-> added, stamped |-> TRUE, check |-> e.check, role |-> e.role]

\* lines 372-427: the Firestore branch.  dqn and dqp are the answers of the
\* existence queries on parameters and on pending.
save_firestore(param_id, enriched0, e, dqn, dqp) ==
    LET email == Email(current_user)
        newId == AutoIdNames[nextId + 1]
        enriched == ("param_id" :> param_id) @@ ("updated_at" :> now) @@ enriched0
        approved == ("approved_by" :> email) @@ ("approved_at" :> now) @@ enriched
        submitted == ("submitted_by" :> email) @@ ("submitted_at" :> now)
                     @@ ("status" :> "pending") @@ enriched
    IN  IF ~e.role \/ e.failAt = "store" THEN Unwritten(handle_exception(e))
        ELSE IF user_is_admin(current_user)
        THEN IF dqn # NoDocId
             THEN Written("updated_parameters",
                          Put(parameters, dqn, Update(parameters[dqn], enriched)),
                          pending, FALSE, e)
             ELSE Written("added_parameters", Put(parameters, newId, approved),
                          pending, TRUE, e)
        ELSE IF dqp # NoDocId
             THEN Written("updated_pending", parameters,
                          Put(pending, dqp, Update(pending[dqp], submitted)),
                          FALSE, e)
             ELSE Written("added_pending", parameters,
                          Put(pending, newId, submitted), TRUE, e)

\* lines 428-467: the Realtime Database branch
save_rtdb(param_id, enriched0, e) ==
    LET email == Email(current_user)
        admin == e.role /\ user_is_admin(current_user)
        enriched == ("updated_at" :> now) @@ enriched0
        approved == ("approved_by" :> email) @@ ("approved_at" :> now) @@ enriched
        submitted == ("submitted_by" :> email) @@ ("submitted_at" :> now)
                     @@ ("status" :> "pending") @@ enriched
    IN  IF e.failAt = "refresh" THEN Unwritten("REFRESH_FAILED")
        ELSE IF e.failAt = "store" THEN Unwritten(handle_exception(e))
        ELSE IF admin
        THEN Written("saved_parameters", Put(parameters, param_id, approved),
                     pending, FALSE, e)
        ELSE Written("saved_pending", parameters,
                     Put(pending, param_id, submitted), FALSE, e)

\* one execution of the try block of save_parameter_to_firebase and of its
\* except handler (lines 326-483): dc is the answer of the canonical lookup of
\* check_parameter_changes
save_once(param_id, param_data, e, dc, dqn, dqp) ==
    LET chk == check_parameter_changes(param_data, e.check, dc)
        enriched0 == enriched_data(param_data, chk.existing_data, Email(current_user))
    IN  IF ~chk.has_changes THEN Unwritten("NO_CHANGES")
        ELSE IF backend = "firestore"
        THEN save_firestore(param_id, enriched0, e, dqn, dqp)
        ELSE save_rtdb(param_id, enriched0, e)

\* save_parameter_to_firebase for a signed-in user: es are the answers the
\* successive executions of the body get; line 479 re-enters the function after
\* a successful refresh, whatever the number of executions so far
RECURSIVE save_parameter_to_firebase(_, _, _, _, _, _)
save_parameter_to_firebase(param_id, param_data, es, dc, dqn, dqp) ==
    LET o == save_once(param_id, param_data, Head(es), dc, dqn, dqp)
    IN  IF o.result = "RETRY" /\ Len(es) > 1
        THEN save_parameter_to_firebase(param_id, param_data, Tail(es), dc, dqn, dqp)
        ELSE o

\* the last submission or review that changed a store, or the start of the
\* application after it: the parameter key it was about, how it ended and, for
\* a write of save_parameter_to_firebase, whether the canonical read and the
\* read of the role were answered; NoOp as long as no store was changed
Op(op, key, result, check, role) ==
    [op |-> op, key |-> key, result |-> result, check |-> check, role |-> role]
NoOp == Op("none", "", "none", TRUE, TRUE)
Review(op, key, result) == Op(op, key, result, TRUE, TRUE)

\* the answers of a call that executes the body n times: the first n - 1
\* executions end in the handler's re-entry, the last one gets e
Answers(n, e) == [i \in 1..n |-> IF i < n THEN RetryEnv ELSE e]

\* a signed-in caller invokes save_parameter_to_firebase(param_id, param_data)
\* and the call executes the body n times, the last time with the answers e
SubmitWith(param_id, param_data, n, e) ==
    /\ ~dialog.open
    /\ current_user # NoUser
    /\ RelevantEnv(e)
    /\ \E dc \in Lookup(parameters, param_id) :
       \E dqn \in QueryByParamId(parameters, param_id) :
       \E dqp \in QueryByParamId(pending, param_id) :
       \E o \in {save_parameter_to_firebase(param_id, param_data, Answers(n, e),
                                             dc, dqn, dqp)} :
           /\ o.result # "RETRY"
           /\ (n > 1) =>
                  save_once(param_id, param_data, RetryEnv, dc, dqn, dqp).result
                      = "RETRY"
           /\ o.added => nextId < MaxDocs
           /\ o.stamped => now <= MaxClock
           /\ parameters' = o.parameters
           /\ pending' = o.pending
           /\ nextId' = IF o.added THEN nextId + 1 ELSE nextId
           /\ now' = IF o.stamped THEN now + 1 ELSE now
           /\ last' = IF o.stamped
                      THEN Op("submit", param_id, o.result, o.check, o.role)
                      ELSE last
    /\ UNCHANGED <<tick_vars, log_vars, inflight, tree_vars>>
    /\ UNCHANGED <<backend, users, rejected_parameters, current_user,
                   change_log_button, dialog, cli, profileChanges>>

\* lines 322-324: nobody is signed in
SubmitSignedOut(param_id) ==
    /\ ~dialog.open
    /\ current_user = NoUser
    /\ UNCHANGED vars

\* a caller invokes save_parameter_to_firebase(param_id, param_data)
Submit(param_id, param_data) ==
    \/ SubmitSignedOut(param_id)
    \/ \E n \in 1..MaxAttempts, e \in Envs : SubmitWith(param_id, param_data, n, e)

---------------------------------------------------------------------------
(* Sign-in, sign-out and the users store *)

\* the profile sign_in_with_email_password creates (lines 115-120)
DefaultProfile(uid) == [email |-> Email(uid), role |-> "user", trusted |-> FALSE]

\* sign_in_with_email_password, Firestore part: the profile is created when the
\* users store has none; an error of the store is swallowed (lines 107-123)
ensure_profile(uid, storeOk) ==
    IF backend = "firestore" /\ storeOk /\ uid \notin DOMAIN users
    THEN Put(users, uid, DefaultProfile(uid))
    ELSE users

\* VCMOverlay.update_auth_status, lines 1299-1324: the slot the button gets
\* when a user is signed in; is_admin stays False when the role read raises
update_auth_status(store, uid, roleOk) ==
    IF roleOk /\ is_admin(store, uid) THEN "run_manage_pending" ELSE "show_change_log"

\* handle_auth_button with nobody signed in: LoginDialog, then update_auth_status
SignIn(uid) ==
    /\ ~dialog.open
    /\ current_user = NoUser
    /\ \E authOk \in BOOLEAN, storeOk \in BOOLEAN, roleOk \in BOOLEAN :
        /\ ~authOk => (storeOk /\ roleOk)
        /\ IF authOk
           THEN /\ current_user' = uid
                /\ users' = ensure_profile(uid, storeOk)
                /\ change_log_button' =
                       update_auth_status(ensure_profile(uid, storeOk), uid, roleOk)
                /\ labels' = [labels EXCEPT !.param_id_label = <<>>,
                                            !.param_name_label = <<>>,
                                            !.param_desc_label = <<>>]
                /\ last' = last
           ELSE /\ UNCHANGED <<current_user, users, change_log_button, labels>>
                /\ last' = last
    /\ UNCHANGED <<windows, vcm_editor, current_parameter_edit_hwnd,
                   last_parameter_text, timer, tick_log>>
    /\ UNCHANGED <<log_vars, inflight, tree_vars>>
    /\ UNCHANGED <<backend, parameters, pending, rejected_parameters, dialog, cli,
                   now, profileChanges, nextId>>

\* handle_auth_button with a user signed in: sign_out, then update_auth_status,
\* which leaves the button's slot as it is when nobody is signed in and clears
\* the id, name and description labels (lines 1326-1345)
SignOut ==
    /\ ~dialog.open
    /\ current_user # NoUser
    /\ current_user' = NoUser
    /\ last' = last
    /\ labels' = [labels EXCEPT !.param_id_label = <<>>,
                                !.param_name_label = <<>>,
                                !.param_desc_label = <<>>]
    /\ UNCHANGED <<windows, vcm_editor, current_parameter_edit_hwnd,
                   last_parameter_text, timer, tick_log>>
    /\ UNCHANGED <<log_vars, inflight, tree_vars>>
    /\ UNCHANGED <<backend, users, parameters, pending, rejected_parameters,
                   change_log_button, dialog, cli, now, profileChanges, nextId>>

\* the profiles an administrator of the project gives a user (make_admin.py
\* grants admin; the store's console edits or removes a profile)
Profiles(uid) ==
    { [email |-> Email(uid), role |-> "user", trusted |-> FALSE],
      [email |-> Email(uid), role |-> "admin", trusted |-> FALSE],
      [email |-> Email(uid), role |-> "admin", trusted |-> TRUE] }

SetProfile(uid) ==
    /\ profileChanges < MaxProfileChanges
    /\ profileChanges' = profileChanges + 1
    /\ \E prof \in Profiles(uid) :
        /\ IF uid \in DOMAIN users THEN users[uid] # prof ELSE TRUE
        /\ users' = Put(users, uid, prof)
    /\ last' = last
    /\ UNCHANGED <<tick_vars, log_vars, inflight, tree_vars>>
    /\ UNCHANGED <<backend, parameters, pending, rejected_parameters, current_user,
                   change_log_button, dialog, cli, now, nextId>>

---------------------------------------------------------------------------
(* vcm_overlay.py: the review dialog *)

upper(t) ==
    CASE t = "ecm" -> "ECM"
      [] t = "tcm" -> "TCM"
      [] OTHER -> t

ClosedDialog == [open |-> FALSE, user |-> NoUser, parameters |-> EmptyDict]

\* submitted_at_formatted: the formatted timestamp, or "Unknown"
formatted(param_data) ==
    IF Has(param_data, "submitted_at") THEN <<param_data["submitted_at"]>> ELSE <<>>

\* the documents of the pending store pend that load_module_parameters lists
\* under the tab of module_type
listed(pend, module_type) ==
    IF backend = "firestore"
    THEN {d \in DOMAIN pend : Get(pend[d], "type", "") = module_type}
    ELSE {d \in DOMAIN pend : upper(Get(pend[d], "type", "")) = module_type}

\* the entry load_module_parameters keeps for document d
list_entry(pend, d) ==
    ("id" :> d)
    @@ ("param_id" :> IF backend = "firestore"
                      THEN Get(pend[d], "param_id", "Unknown") ELSE d)
    @@ ("submitted_at_formatted" :> formatted(pend[d]))
    @@ pend[d]

\* the tab an entry of the dialog sits in
tab_of(param_data) == upper(Get(param_data, "type", ""))

\* ManagePendingDialog.load_module_parameters for the tabs in `tabs`: their
\* lists are cleared and filled again; a tab whose read raises stays empty
load_module_parameters(pend, old, tabs, failed) ==
    LET kept == {d \in DOMAIN old : tab_of(old[d]) \notin tabs}
        fresh == UNION {listed(pend, t) : t \in tabs \ failed}
    IN  [d \in kept \cup fresh |-> IF d \in fresh THEN list_entry(pend, d) ELSE old[d]]

\* a click on change_log_button: run_manage_pending opens the dialog for a
\* signed-in user (lines 1370-1384), show_change_log changes nothing here
ClickChangeLogButton ==
    /\ ~dialog.open
    /\ IF change_log_button = "run_manage_pending" /\ current_user # NoUser
       THEN \E failed \in SUBSET MODULE_TYPES :
               /\ dialog' = [open |-> TRUE, user |-> current_user,
                             parameters |->
                                 load_module_parameters(pending, EmptyDict,
                                                        MODULE_TYPES, failed)]
               /\ last' = last
       ELSE /\ dialog' = dialog
            /\ last' = last
    /\ UNCHANGED <<tick_vars, log_vars, inflight, tree_vars>>
    /\ UNCHANGED <<backend, users, parameters, pending, rejected_parameters,
                   current_user, change_log_button, cli, now, profileChanges, nextId>>

\* a copy of the entry that gets the status but no approval stamp
approved_data_unstamped(param_data, email) ==
    ("status" :> "approved") @@ Pop(Pop(param_data, "id"), "submitted_at_formatted")

\* approved_data of approve_parameter (lines 3315-3325 and 3347-3357)
approved_data(param_data, email) ==
    ("status" :> "approved") @@ ("approved_by" :> email) @@ ("approved_at" :> now)
    @@ Pop(Pop(param_data, "id"), "submitted_at_formatted")

\* ManagePendingDialog.approve_parameter on the selected entry d, confirmed
\* with Yes.  failAt names the store operation that raises, reloadOk whether
\* the reload of the tab succeeds.
approve_parameter(d, failAt, reloadOk, dqn) ==
    LET param_data == dialog.parameters[d]
        data == approved_data(param_data, Email(dialog.user))
        param_id == IF backend = "firestore"
                    THEN Get(param_data, "param_id", "Unknown") ELSE d
        newId == AutoIdNames[nextId + 1]
        adds == backend = "firestore" /\ dqn = NoDocId
        written ==
            IF backend = "firestore"
            THEN IF dqn # NoDocId
                 THEN Put(parameters, dqn, Update(parameters[dqn], data))
                 ELSE Put(parameters, newId, data)
            ELSE Put(parameters, param_id, data)
    IN  /\ (failAt = "query") => backend = "firestore"
        /\ (failAt # "none") => reloadOk
        /\ IF failAt \in {"query", "write"}
           THEN UNCHANGED <<parameters, pending, dialog, now, nextId, last>>
           ELSE /\ now <= MaxClock
                /\ adds => nextId < MaxDocs
                /\ parameters' = written
                /\ now' = now + 1
                /\ nextId' = IF adds THEN nextId + 1 ELSE nextId
                /\ IF failAt = "delete"
                   THEN /\ UNCHANGED <<pending, dialog>>
                        /\ last' = Review("dialog_approve", param_id, "error")
                   ELSE /\ pending' = Remove(pending, d)
                        /\ dialog' = [dialog EXCEPT !.parameters =
                               load_module_parameters(
                                   Remove(pending, d), @, {tab_of(param_data)},
                                   IF reloadOk THEN {} ELSE {tab_of(param_data)})]
                        /\ last' = Review("dialog_approve", param_id, "ok")

ApproveParameter ==
    /\ dialog.open
    /\ \E d \in DOMAIN dialog.parameters :
       \E failAt \in {"none", "query", "write", "delete"}, reloadOk \in BOOLEAN :
       \E dqn \in QueryByParamId(parameters, Get(dialog.parameters[d], "param_id", "")) :
           approve_parameter(d, failAt, reloadOk, dqn)
    /\ UNCHANGED <<tick_vars, log_vars, inflight, tree_vars>>
    /\ UNCHANGED <<backend, users, rejected_parameters, current_user,
                   change_log_button, cli, profileChanges>>

\* a reject that also drops the canonical record of the entry's key
reject_parameter_purging(d, deleteOk, reloadOk) ==
    LET param_data == dialog.parameters[d]
        param_id == Get(param_data, "param_id", "Unknown")
    IN  /\ deleteOk /\ reloadOk
        /\ parameters' = [x \in {c \in DOMAIN parameters :
                                    Get(parameters[c], "param_id", c) # param_id}
                             |-> parameters[x]]
        /\ rejected_parameters' = rejected_parameters
        /\ pending' = Remove(pending, d)
        /\ dialog' = [dialog EXCEPT !.parameters =
               load_module_parameters(Remove(pending, d), @, {tab_of(param_data)}, {})]
        /\ last' = Review("dialog_reject", param_id, "ok")

\* ManagePendingDialog.reject_parameter on the selected entry d, confirmed
\* with Yes (lines 3399-3423): the pending document is deleted and the tab is
\* loaded again; no other store is written
reject_parameter(d, deleteOk, reloadOk) ==
    LET param_data == dialog.parameters[d]
        param_id == Get(param_data, "param_id", "Unknown")
    IN  /\ ~deleteOk => reloadOk
        /\ parameters' = parameters
        /\ rejected_parameters' = rejected_parameters
        /\ IF deleteOk
           THEN /\ pending' = Remove(pending, d)
                /\ dialog' = [dialog EXCEPT !.parameters =
                       load_module_parameters(
                           Remove(pending, d), @, {tab_of(param_data)},
                           IF reloadOk THEN {} ELSE {tab_of(param_data)})]
                /\ last' = Review("dialog_reject", param_id, "ok")
           ELSE UNCHANGED <<pending, dialog, last>>

RejectParameter ==
    /\ dialog.open
    /\ \E d \in DOMAIN dialog.parameters :
       \E deleteOk \in BOOLEAN, reloadOk \in BOOLEAN :
           reject_parameter(d, deleteOk, reloadOk)
    /\ UNCHANGED <<tick_vars, log_vars, inflight, tree_vars>>
    /\ UNCHANGED <<backend, users, current_user, change_log_button, cli, now,
                   profileChanges, nextId>>

\* ManagePendingDialog.refresh_all_tabs
RefreshAllTabs ==
    /\ dialog.open
    /\ \E failed \in SUBSET MODULE_TYPES :
        dialog' = [dialog EXCEPT !.parameters =
                       load_module_parameters(pending, @, MODULE_TYPES, failed)]
    /\ last' = last
    /\ UNCHANGED <<tick_vars, log_vars, inflight, tree_vars>>
    /\ UNCHANGED <<backend, users, parameters, pending, rejected_parameters,
                   current_user, change_log_button, cli, now, profileChanges, nextId>>

\* the Close button of the dialog
CloseDialog ==
    /\ dialog.open
    /\ dialog' = ClosedDialog
    /\ last' = last
    /\ UNCHANGED <<tick_vars, log_vars, inflight, tree_vars>>
    /\ UNCHANGED <<backend, users, parameters, pending, rejected_parameters,
                   current_user, change_log_button, cli, now, profileChanges, nextId>>

---------------------------------------------------------------------------
(* manage_pending.py: the command-line review tool, a process of its own *)

NoCli == [active |-> FALSE, user |-> NoUser, param_list |-> EmptyDict]

\* lines 10-93 (Firestore) and 175-203 (Realtime Database): sign-in, the check
\* of the admin status, the listing of the pending store
CliStart(uid) ==
    /\ ~cli.active
    /\ \E authOk \in BOOLEAN, storeOk \in BOOLEAN, roleOk \in BOOLEAN, listOk \in BOOLEAN :
        LET profiles == IF authOk THEN ensure_profile(uid, storeOk) ELSE users
            admin == authOk /\ roleOk /\ is_admin(profiles, uid)
            listing == admin /\ listOk /\ DOMAIN pending # {}
        IN  /\ ~authOk => (storeOk /\ roleOk)
            /\ ~admin => listOk
            /\ users' = profiles
            /\ cli' = IF listing
                      THEN [active |-> TRUE, user |-> uid,
                            param_list |-> [d \in DOMAIN pending |->
                                               ("id" :> d) @@ pending[d]]]
                      ELSE NoCli
            /\ last' = last
    /\ UNCHANGED <<tick_vars, log_vars, inflight, tree_vars>>
    /\ UNCHANGED <<backend, parameters, pending, rejected_parameters, current_user,
                   change_log_button, dialog, now, profileChanges, nextId>>

\* document.update(fields) of Firestore raises for a missing document; update
\* of a Realtime Database node creates it
can_update(store, d) == backend = "rtdb" \/ d \in DOMAIN store
updated(store, d, fields) ==
    Put(store, d, Update(IF d \in DOMAIN store THEN store[d] ELSE EmptyDict, fields))

\* action 'a' on entry d (lines 123-150 and 231-255)
cli_approve(d, failAt, dqn) ==
    LET param_data == cli.param_list[d]
        email == Email(cli.user)
        param_id == IF backend = "firestore"
                    THEN Get(param_data, "param_id", "Unknown") ELSE d
        data == ("status" :> "approved") @@ ("approved_by" :> email)
                @@ ("approved_at" :> now) @@ Pop(param_data, "id")
        mark == [status |-> "approved", approved_by |-> email, approved_at |-> now]
        newId == AutoIdNames[nextId + 1]
        adds == backend = "firestore" /\ dqn = NoDocId
        written ==
            IF backend = "firestore"
            THEN IF dqn # NoDocId
                 THEN Put(parameters, dqn, Update(parameters[dqn], data))
                 ELSE Put(parameters, newId, data)
            ELSE Put(parameters, d, data)
    IN  /\ (failAt = "query") => backend = "firestore"
        /\ IF failAt \in {"query", "write"}
           THEN UNCHANGED <<parameters, pending, now, nextId, last>>
           ELSE /\ now <= MaxClock
                /\ adds => nextId < MaxDocs
                /\ parameters' = written
                /\ now' = now + 1
                /\ nextId' = IF adds THEN nextId + 1 ELSE nextId
                /\ IF failAt = "mark" \/ ~can_update(pending, d)
                   THEN /\ pending' = pending
                        /\ last' = Review("cli_approve", param_id, "error")
                   ELSE /\ pending' = updated(pending, d, mark)
                        /\ last' = Review("cli_approve", param_id, "ok")

CliApprove ==
    /\ cli.active
    /\ \E d \in DOMAIN cli.param_list :
       \E failAt \in {"none", "query", "write", "mark"} :
       \E dqn \in QueryByParamId(parameters, Get(cli.param_list[d], "param_id", "")) :
           cli_approve(d, failAt, dqn)
    /\ UNCHANGED <<tick_vars, log_vars, inflight, tree_vars>>
    /\ UNCHANGED <<backend, users, rejected_parameters, current_user,
                   change_log_button, dialog, cli, profileChanges>>

\* action 'r' on entry d (lines 152-163 and 257-268): the pending document is
\* marked rejected; no other store is written
cli_reject(d, reason, updateOk) ==
    LET email == Email(cli.user)
        param_id == IF backend = "firestore"
                    THEN Get(cli.param_list[d], "param_id", "Unknown") ELSE d
        mark == [status |-> "rejected", rejected_by |-> email, rejected_at |-> now,
                 rejection_reason |-> reason]
    IN  /\ parameters' = parameters
        /\ rejected_parameters' = rejected_parameters
        /\ IF updateOk /\ can_update(pending, d)
           THEN /\ now <= MaxClock
                /\ pending' = updated(pending, d, mark)
                /\ now' = now + 1
                /\ last' = Review("cli_reject", param_id, "ok")
           ELSE UNCHANGED <<pending, now, last>>

CliReject ==
    /\ cli.active
    /\ \E d \in DOMAIN cli.param_list, reason \in Reasons, updateOk \in BOOLEAN :
           cli_reject(d, reason, updateOk)
    /\ UNCHANGED <<tick_vars, log_vars, inflight, tree_vars>>
    /\ UNCHANGED <<backend, users, current_user, change_log_button, dialog, cli,
                   profileChanges, nextId>>

\* 'q' at the prompt
CliQuit ==
    /\ cli.active
    /\ cli' = NoCli
    /\ last' = last
    /\ UNCHANGED <<tick_vars, log_vars, inflight, tree_vars>>
    /\ UNCHANGED <<backend, users, parameters, pending, rejected_parameters,
                   current_user, change_log_button, dialog, now, profileChanges, nextId>>

---------------------------------------------------------------------------
(* firebase_service.py and change_log_dialog.py: the change log *)

\* Python's None where a text is expected: no text has an element longer than
\* one character
None == <<"None">>
\* the truth value Python gives a text or None
truthy(v) == v # None /\ v # EmptyText

\* the markers extract_values_from_details looks for
OldValueMarker == <<"O", "l", "d", " ", "V", "a", "l", "u", "e", ":">>
NewValueMarker == <<"N", "e", "w", " ", "V", "a", "l", "u", "e", ":">>
ChangedFromMarker == <<"C", "h", "a", "n", "g", "e", "d", " ", "f", "r", "o", "m">>
ToMarker == <<"t", "o">>
Colon == <<":">>
Comma == <<",">>
Newline == <<"\n">>

\* str.find(sub) + 1: the first position at which sub occurs in s, 0 for none
find(s, sub) ==
    LET hits == {i \in 1..(Len(s) - Len(sub) + 1) :
                    SubSeq(s, i, i + Len(sub) - 1) = sub}
    IN  IF hits = {} THEN 0 ELSE CHOOSE i \in hits : \A j \in hits : i <= j

\* sub in s
contains(s, sub) == find(s, sub) # 0

\* s.endswith(suffix)
endswith(s, suffix) ==
    /\ Len(s) >= Len(suffix)
    /\ SubSeq(s, Len(s) - Len(suffix) + 1, Len(s)) = suffix

\* s.split(sep, 1)
split_once(s, sep) ==
    LET i == find(s, sep)
    IN  IF i = 0 THEN <<s>>
        ELSE <<SubSeq(s, 1, i - 1), SubSeq(s, i + Len(sep), Len(s))>>

\* s.split(sep)
RECURSIVE split_all(_, _)
split_all(s, sep) ==
    LET parts == split_once(s, sep)
    IN  IF Len(parts) = 1 THEN parts ELSE <<parts[1]>> \o split_all(parts[2], sep)

\* options 1 and 2 of extract_values_from_details (lines 783-807): the text
\* between the two markers, without one trailing comma, and the text after the
\* second marker; the IndexError of a missing second part is swallowed after
\* old_value is set
between_markers(details, first, second) ==
    LET split_old == split_once(details, first)[2]
        parts == split_once(split_old, second)
        old_part == strip(parts[1])
    IN  [old_value |-> IF endswith(old_part, Comma)
                       THEN strip(SubSeq(old_part, 1, Len(old_part) - 1))
                       ELSE old_part,
         new_value |-> IF Len(parts) > 1 THEN strip(parts[2]) ELSE None]

\* option 3 (lines 810-824): the two lines after the first line that holds a
\* colon and is followed by a non-empty line without one
lines_after_colon(lines) ==
    LET n == Len(lines)
        hits == {i \in 1..(n - 2) :
                    /\ contains(lines[i], Colon)
                    /\ strip(lines[i + 2]) # EmptyText
                    /\ ~contains(lines[i + 2], Colon)}
        first == CHOOSE h \in hits : \A j \in hits : h <= j
    IN  IF hits = {} THEN [old_value |-> None, new_value |-> None]
        ELSE [old_value |-> strip(lines[first + 1]),
              new_value |-> strip(lines[first + 2])]

following_lines(details) == lines_after_colon(split_all(details, Newline))

\* extract_values_from_details (lines 767-828)
extract_values_from_details(details) ==
    IF ~truthy(details) THEN [old_value |-> None, new_value |-> None]
    ELSE IF contains(details, OldValueMarker) /\ contains(details, NewValueMarker)
    THEN between_markers(details, OldValueMarker, NewValueMarker)
    ELSE IF contains(details, ChangedFromMarker) /\ contains(details, ToMarker)
    THEN between_markers(details, ChangedFromMarker, ToMarker)
    ELSE IF contains(details, Colon) THEN following_lines(details)
    ELSE [old_value |-> None, new_value |-> None]

\* lines 753-759: the values found in the details text fill the fields that
\* had no value
with_found(d, found, has_old, has_new) ==
    (IF ~has_old /\ truthy(found.old_value)
     THEN ("old_value" :> found.old_value) ELSE EmptyDict)
    @@ (IF ~has_new /\ truthy(found.new_value)
        THEN ("new_value" :> found.new_value) ELSE EmptyDict)
    @@ d

\* ensure_old_new_values (lines 716-765), as the dict it leaves behind
ensure_old_new_values(param_data) ==
    LET has_old == Has(param_data, "old_value") /\ truthy(param_data["old_value"])
        has_new == Has(param_data, "new_value") /\ truthy(param_data["new_value"])
        both(f) == Has(param_data, new_key(f)) /\ Has(param_data, old_key(f))
        pair(f) == ("new_value" :> param_data[new_key(f)])
                   @@ ("old_value" :> param_data[old_key(f)])
        d1 == IF both("details") THEN pair("details") @@ param_data
              ELSE IF both("description") THEN pair("description") @@ param_data
              ELSE IF both("name") THEN pair("name") @@ param_data
              ELSE IF has_new THEN param_data
              ELSE IF Has(param_data, "details")
              THEN ("new_value" :> param_data["details"]) @@ param_data
              ELSE IF Has(param_data, "description")
              THEN ("new_value" :> param_data["description"]) @@ param_data
              ELSE IF Has(param_data, "name")
              THEN ("new_value" :> param_data["name"]) @@ param_data
              ELSE param_data
        found == IF Has(d1, "details")
                 THEN extract_values_from_details(d1["details"])
                 ELSE [old_value |-> None, new_value |-> None]
        d2 == with_found(d1, found, has_old, has_new)
    IN  IF has_old /\ has_new THEN param_data
        ELSE d2 @@ ("old_value" :> EmptyText) @@ ("new_value" :> EmptyText)

\* the order in which a store hands out its documents: by document id
ParamIdNames == <<"12600">>
DocOrder == AutoIdNames \o ParamIdNames

\* datetime.timestamp() * 1000 of a Firestore timestamp
millis(t) == t * 1000

\* the timestamp a contribution gets from the first of the fields the record
\* has: Firestore sets none when the record has none of them (lines 585-586,
\* 605-608, 627-628), the Realtime Database sets 0 (lines 661, 679, 697)
stamped(rec, fields) ==
    LET there == SelectSeq(fields, LAMBDA f : Has(rec, f))
    IN  IF backend = "firestore"
        THEN IF there = <<>> THEN EmptyDict
             ELSE ("timestamp" :> millis(rec[Head(there)]))
        ELSE ("timestamp" :> IF there = <<>> THEN 0 ELSE rec[Head(there)])

\* the contribution made of document d of a store (lines 579-596 and the like)
contribution(store, d, status, fields) ==
    LET c1 == ("id" :> d) @@ ("status" :> status) @@ stamped(store[d], fields)
              @@ store[d]
        c2 == IF Has(c1, "name") /\ ~Has(c1, "parameter_name")
              THEN ("parameter_name" :> c1["name"]) @@ c1 ELSE c1
    IN  ensure_old_new_values(c2)

\* the contributions of one store: the documents whose field holds the email
from_store(store, field, email, status, fields) ==
    LET ids == SelectSeq(DocOrder, LAMBDA d : /\ d \in DOMAIN store
                                               /\ Has(store[d], field)
                                               /\ store[d][field] = email)
    IN  [i \in 1..Len(ids) |-> contribution(store, ids[i], status, fields)]

\* x.get('timestamp', 0)
sort_key(x) == Get(x, "timestamp", 0)

\* list.sort(key=..., reverse=True): stable, the largest key first
RECURSIVE sorted_reverse(_)
sorted_reverse(s) ==
    IF s = <<>> THEN <<>>
    ELSE LET x == s[Len(s)]
             front == sorted_reverse(SubSeq(s, 1, Len(s) - 1))
             k == Cardinality({i \in 1..Len(front) : sort_key(front[i]) >= sort_key(x)})
         IN  SubSeq(front, 1, k) \o <<x>> \o SubSeq(front, k + 1, Len(front))

\* the same list left in the order it was collected in
unsorted(s) == s

\* the store reads of get_user_contributions that may raise
LoadFailures == {"none", "users", "pending", "parameters", "rejected_parameters"}

\* get_user_contributions(user_id) (lines 552-714): failAt names the read that
\* raises; the handler of line 711 returns the list as far as it was built
get_user_contributions(user_id, failAt) ==
    LET user_email == IF user_id \in DOMAIN users
                      THEN Get(users[user_id], "email", "") ELSE ""
        p == from_store(pending, "submitted_by", user_email, "pending",
                        <<"submitted_at">>)
        c == from_store(parameters, "updated_by", user_email, "approved",
                        <<"approved_at", "updated_at">>)
        r == from_store(rejected_parameters, "submitted_by", user_email, "rejected",
                        <<"rejected_at">>)
    IN  IF current_user = NoUser \/ failAt = "users" \/ user_email = ""
        THEN <<>>
        ELSE IF failAt = "pending" THEN <<>>
        ELSE IF failAt = "parameters" THEN p
        ELSE IF failAt = "rejected_parameters" THEN p \o c
        ELSE sorted_reverse(p \o c \o r)

\* no change log dialog has loaded anything yet
NoLoad == [user |-> NoUser, failAt |-> "none"]

\* a click on change_log_button while it is bound to show_change_log
\* (vcm_overlay.py lines 1386-1411), by a signed-in user: the modal
\* ChangeLogDialog loads the contributions of the current user
\* (change_log_dialog.py lines 84-93 and 251-266) and is closed again
show_change_log ==
    /\ ~dialog.open
    /\ change_log_button = "show_change_log"
    /\ current_user # NoUser
    /\ \E failAt \in LoadFailures :
        /\ contributions' = get_user_contributions(current_user, failAt)
        /\ load_log' = [user |-> current_user, failAt |-> failAt]
    /\ last' = last
    /\ UNCHANGED <<tick_vars, inflight, tree_vars>>
    /\ UNCHANGED <<backend, users, parameters, pending, rejected_parameters,
                   current_user, change_log_button, dialog, cli, now,
                   profileChanges, nextId>>

\* the old and new values written into details texts: every text of up to
\* MaxValueLen characters of ValueChars, the values of the documented examples
\* and values with the word "to" inside and as a word of its own
ValueChars == {"1", "t", "o", ",", " "}
OldValues ==
    UNION {[1..n -> ValueChars] : n \in 1..MaxValueLen}
    \cup {<<"1", "0">>, <<"A">>, <<"a", "u", "t", "o">>, <<"1", " ", "t", "o">>}
NewValues == {<<"2", "0">>, <<"B">>, <<"t", "o", "p">>}

\* the details texts "Old Value: X, New Value: Y" and "Changed from X to Y"
OldNewDetails(x, y) ==
    OldValueMarker \o <<" ">> \o x \o <<",", " ">> \o NewValueMarker \o <<" ">> \o y
ChangedDetails(x, y) ==
    ChangedFromMarker \o <<" ">> \o x \o <<" ">> \o ToMarker \o <<" ">> \o y
DetailsTexts ==
    {OldNewDetails(x, y) : x \in OldValues, y \in NewValues}
    \cup {ChangedDetails(x, y) : x \in OldValues, y \in NewValues}

\* a pending record written by a client that stored only the details text
LegacyRecord(details) ==
    [param_id |-> "12600", type |-> "ECM", name |-> TxtN, details |-> details,
     status |-> "pending", submitted_by |-> Email("u2"), submitted_at |-> 1]

---------------------------------------------------------------------------
(* vcm_overlay.py: the parameter detection *)

\* window handles; NoHwnd is current_parameter_edit_hwnd = None
NoHwnd == 0
Handles == {1, 2}

\* the texts of the edit controls
TextEcm == <<"[", "E", "C", "M", "]", " ", "1", " ", "-", "a", ":", "b">>
TextTcm == <<"[", "T", "C", "M", "]", " ", "2", " ", "c">>
TextOther == <<"x">>
\* last_parameter_text = None; update_parameter_info never stores an empty text
NoText == <<>>

\* a window that has been destroyed
DeadWindow == [live |-> FALSE, class |-> "", text |-> NoText]
\* the windows a handle can stand for: edit controls with or without a
\* parameter text, and a control of another class that shows a parameter text
WindowStates ==
    {DeadWindow}
    \cup {[live |-> TRUE, class |-> "Edit", text |-> t] :
              t \in {TextEcm, TextTcm, TextOther}}
    \cup {[live |-> TRUE, class |-> "Button", text |-> TextEcm]}

\* str.startswith
startswith(s, prefix) ==
    Len(s) >= Len(prefix) /\ SubSeq(s, 1, Len(prefix)) = prefix

\* the first position of s from i on whose character is in C, Len(s) + 1 if
\* there is none
RECURSIVE first_in(_, _, _)
first_in(s, i, C) ==
    IF i > Len(s) THEN Len(s) + 1
    ELSE IF s[i] \in C THEN i ELSE first_in(s, i + 1, C)

\* the first position of s from i on whose character is not in C
RECURSIVE first_not_in(_, _, _)
first_not_in(s, i, C) ==
    IF i > Len(s) THEN Len(s) + 1
    ELSE IF s[i] \notin C THEN i ELSE first_not_in(s, i + 1, C)

\* str.split(None, maxsplit): words separated by runs of whitespace; after
\* maxsplit splits the rest of the text is the last element, with its
\* trailing whitespace
RECURSIVE split(_, _)
split(s, maxsplit) ==
    LET i == first_not_in(s, 1, Whitespace)
        j == first_in(s, i, Whitespace)
    IN  IF i > Len(s) THEN <<>>
        ELSE IF maxsplit = 0 THEN <<SubSeq(s, i, Len(s))>>
        ELSE <<SubSeq(s, i, j - 1)>> \o split(SubSeq(s, j, Len(s)), maxsplit - 1)

\* str.strip(chars)
RECURSIVE lstrip_chars(_, _)
lstrip_chars(s, C) ==
    IF Len(s) > 0 /\ Head(s) \in C THEN lstrip_chars(Tail(s), C) ELSE s
RECURSIVE rstrip_chars(_, _)
rstrip_chars(s, C) ==
    IF Len(s) > 0 /\ s[Len(s)] \in C
    THEN rstrip_chars(SubSeq(s, 1, Len(s) - 1), C) ELSE s
strip_chars(s, C) == rstrip_chars(lstrip_chars(s, C), C)

Digits == {"0", "1", "2", "3", "4", "5", "6", "7", "8", "9"}

\* the labels with no parameter shown
NoLabels ==
    [param_type_label |-> <<>>, param_id_label |-> <<>>,
     param_name_label |-> <<>>, param_desc_label |-> <<>>]

\* a name that keeps its leading dash
name_with_dash(name_part) == name_part

\* lines 1687-1690 and 1699-1702: a leading "- " or "-" is taken off the name
name_without_dash(name_part) ==
    IF startswith(name_part, <<"-", " ">>) THEN SubSeq(name_part, 3, Len(name_part))
    ELSE IF startswith(name_part, <<"-">>) THEN SubSeq(name_part, 2, Len(name_part))
    ELSE name_part

\* a search that takes the first run of digits wherever it starts
re_search_digits(id_part) ==
    LET i == first_in(id_part, 1, Digits)
    IN  SubSeq(id_part, i, first_not_in(id_part, i, Digits) - 1)

\* re.match(r'(\d+)', id_part) of line 1676: the digits id_part starts with,
\* nothing when it starts with no digit
re_match_digits(id_part) ==
    SubSeq(id_part, 1, first_not_in(id_part, 1, Digits) - 1)

\* update_parameter_info, lines 1637-1706: the type, id, name and description
\* shown for a text
parsed_labels(text) ==
    LET words == split(text, Len(text))
        header_part == IF Len(words) > 0 THEN words[1] ELSE <<>>
        parts == split(text, 2)
        id_part == IF Len(parts) >= 2 THEN strip(parts[2]) ELSE <<>>
        id_match == re_match_digits(id_part)
        remainder == IF Len(parts) >= 3 THEN strip(parts[3]) ELSE <<>>
        colon == first_in(remainder, 1, {":"})
        name_part == IF colon <= Len(remainder)
                     THEN SubSeq(remainder, 1, colon - 1) ELSE remainder
        desc_part == IF colon <= Len(remainder)
                     THEN SubSeq(remainder, colon + 1, Len(remainder)) ELSE <<>>
    IN  [param_type_label |-> strip_chars(header_part, {"[", "]"}),
         param_id_label |-> id_match,
         param_name_label |-> strip(name_without_dash(name_part)),
         param_desc_label |-> strip(desc_part)]

\* an update that parses whatever text it is given
update_parameter_info_always(text, signed_in) ==
    [last |-> text, labels |-> parsed_labels(text), parsed |-> TRUE]

\* VCMOverlay.update_parameter_info (lines 1619-1734): what it leaves in
\* last_parameter_text and in the labels, and whether it parsed the text
update_parameter_info(text, signed_in) ==
    IF Len(text) = 0 \/ text = last_parameter_text
    THEN [last |-> last_parameter_text, labels |-> labels, parsed |-> FALSE]
    ELSE IF ~signed_in
    THEN [last |-> text, labels |-> labels, parsed |-> FALSE]
    ELSE [last |-> text, labels |-> parsed_labels(text), parsed |-> TRUE]

\* a check that takes any text for a parameter text
is_parameter_text_any(text) == Len(text) > 0

\* VCMOverlay.is_parameter_text (lines 2089-2093)
is_parameter_text(text) ==
    \/ startswith(text, <<"[", "E", "C", "M", "]">>)
    \/ startswith(text, <<"[", "T", "C", "M", "]">>)

\* what the desktop answers during one tick: is_window is FALSE when
\* IsWindow raises, read holds the handles whose get_edit_text raises,
\* enum_windows is FALSE when EnumWindows raises before the editor is seen,
\* enum_child holds the children whose callback runs before EnumChildWindows
\* ends or raises, class_name the handles whose get_class_name raises
OsAnswers ==
    [is_window : BOOLEAN, read : SUBSET Handles, enum_windows : BOOLEAN,
     enum_child : SUBSET Handles, class_name : SUBSET Handles]

\* find_vcm_editor_window (lines 2008-2028): whether it returns a window
find_vcm_editor_window(a) == vcm_editor /\ a.enum_windows

\* find_edit_controls (lines 2030-2076): the handles it returns
find_edit_controls(a) ==
    {h \in a.enum_child : /\ windows[h].live
                          /\ h \notin a.class_name
                          /\ windows[h].class = "Edit"}

\* an OS query of the discovery raises
discovery_raises(a) ==
    \/ ~a.enum_windows
    \/ /\ vcm_editor
       /\ \/ a.enum_child # Handles
          \/ \E h \in a.enum_child : windows[h].live /\ h \in a.class_name
          \/ find_edit_controls(a) \cap a.read # {}

\* auto_detect_parameter_edit_control (lines 1937-1966): the handles it may
\* leave in current_parameter_edit_hwnd, when hwnd is the handle tracked before
auto_detect_parameter_edit_control(hwnd, a) ==
    LET found == {h \in find_edit_controls(a) :
                     h \notin a.read /\ is_parameter_text(windows[h].text)}
    IN  IF ~find_vcm_editor_window(a) THEN {hwnd}
        ELSE IF found = {} THEN {hwnd} ELSE found

\* an except clause that lets the exception go on
unhandled(raised) == FALSE

\* except Exception (line 1928): the handler takes every exception raised in
\* the try block of check_parameter_edit_control
handled(raised) == raised

\* the outcome of a tick: the handle, the last text and the labels it leaves,
\* whether it parsed a text, whether it ran the discovery, whether an OS query
\* raised during it, whether an exception left the handler
Outcome(hwnd, u, detect, raised, escaped) ==
    [hwnd |-> hwnd, last |-> u.last, labels |-> u.labels, parsed |-> u.parsed,
     detect |-> detect, raised |-> raised, escaped |-> escaped]

Untouched == [last |-> last_parameter_text, labels |-> labels, parsed |-> FALSE]

\* the tick runs the discovery
Detect(a, raised) ==
    {Outcome(h, Untouched, TRUE, raised \/ discovery_raises(a), FALSE) :
        h \in auto_detect_parameter_edit_control(current_parameter_edit_hwnd, a)}

\* an exception of the try block: the handler of line 1928 runs the discovery
Except(a) ==
    IF handled(TRUE) THEN Detect(a, TRUE)
    ELSE {Outcome(current_parameter_edit_hwnd, Untouched, FALSE, TRUE, TRUE)}

\* VCMOverlay.check_parameter_edit_control (lines 1901-1935), the slot of the
\* polling timer: the outcomes of one tick under the answers a
check_parameter_edit_control(a) ==
    LET hwnd == current_parameter_edit_hwnd
    IN  IF hwnd = NoHwnd THEN Detect(a, FALSE)
        ELSE IF ~a.is_window THEN Except(a)
        ELSE IF ~windows[hwnd].live THEN Detect(a, FALSE)
        ELSE IF hwnd \in a.read THEN Except(a)
        ELSE IF is_parameter_text(windows[hwnd].text)
        THEN {Outcome(hwnd,
                      update_parameter_info(windows[hwnd].text,
                                            current_user # NoUser),
                      FALSE, FALSE, FALSE)}
        ELSE Detect(a, FALSE)

\* what the last tick did: old_handle is the handle tracked when it began,
\* raised whether an OS query raised during it
NoTick ==
    [ticked |-> FALSE, parsed |-> FALSE, detect |-> FALSE, raised |-> FALSE,
     old_handle |-> NoHwnd]

\* one timeout of self.timer (line 1189)
Tick ==
    /\ timer
    /\ \E o \in UNION {check_parameter_edit_control(a) : a \in OsAnswers} :
           /\ current_parameter_edit_hwnd' = o.hwnd
           /\ last_parameter_text' = o.last
           /\ labels' = o.labels
           /\ timer' = ~o.escaped
           /\ tick_log' = [ticked |-> TRUE, parsed |-> o.parsed,
                           detect |-> o.detect, raised |-> o.raised,
                           old_handle |-> current_parameter_edit_hwnd]
    /\ UNCHANGED <<windows, vcm_editor>>
    /\ UNCHANGED <<log_vars, inflight, tree_vars>>
    /\ UNCHANGED <<backend, users, parameters, pending, rejected_parameters,
                   current_user, change_log_button, dialog, cli, now,
                   profileChanges, nextId, last>>

\* VCMOverlay.enable_parameter_detection (lines 1602-1617): the button that
\* starts the detection with a discovery, or stops it
enable_parameter_detection ==
    /\ IF ~timer
       THEN /\ current_parameter_edit_hwnd' \in
                    UNION {auto_detect_parameter_edit_control(
                               current_parameter_edit_hwnd, a) : a \in OsAnswers}
            /\ timer' = TRUE
       ELSE /\ timer' = FALSE
            /\ current_parameter_edit_hwnd' = current_parameter_edit_hwnd
    /\ tick_log' = NoTick
    /\ UNCHANGED <<windows, vcm_editor, last_parameter_text, labels>>
    /\ UNCHANGED <<log_vars, inflight, tree_vars>>
    /\ UNCHANGED <<backend, users, parameters, pending, rejected_parameters,
                   current_user, change_log_button, dialog, cli, now,
                   profileChanges, nextId, last>>

\* the editor opens its window
OpenEditor ==
    /\ ~vcm_editor
    /\ vcm_editor' = TRUE
    /\ UNCHANGED <<windows, current_parameter_edit_hwnd, last_parameter_text,
                   labels, timer, tick_log>>
    /\ UNCHANGED <<log_vars, inflight, tree_vars>>
    /\ UNCHANGED <<backend, users, parameters, pending, rejected_parameters,
                   current_user, change_log_button, dialog, cli, now,
                   profileChanges, nextId, last>>

\* the editor is closed, and its controls with it
CloseEditor ==
    /\ vcm_editor
    /\ vcm_editor' = FALSE
    /\ windows' = [h \in Handles |-> DeadWindow]
    /\ UNCHANGED <<current_parameter_edit_hwnd, last_parameter_text, labels,
                   timer, tick_log>>
    /\ UNCHANGED <<log_vars, inflight, tree_vars>>
    /\ UNCHANGED <<backend, users, parameters, pending, rejected_parameters,
                   current_user, change_log_button, dialog, cli, now,
                   profileChanges, nextId, last>>

\* the editor creates, destroys or rewrites the control behind handle h
WindowChange(h) ==
    /\ vcm_editor
    /\ \E w \in WindowStates :
        /\ w # windows[h]
        /\ windows' = [windows EXCEPT ![h] = w]
    /\ UNCHANGED <<vcm_editor, current_parameter_edit_hwnd, last_parameter_text,
                   labels, timer, tick_log>>
    /\ UNCHANGED <<log_vars, inflight, tree_vars>>
    /\ UNCHANGED <<backend, users, parameters, pending, rejected_parameters,
                   current_user, change_log_button, dialog, cli, now,
                   profileChanges, nextId, last>>

---------------------------------------------------------------------------
(* vcm_overlay.py: the start of the application *)

\* a clean-up that does not ask who is signed in
clean_parameters_collection_unguarded(user, roleOk, deleted) ==
    IF backend # "firestore" THEN parameters
    ELSE [d \in DOMAIN parameters \ deleted |-> parameters[d]]

\* VCMOverlay.clean_parameters_collection (lines 2701-2739), the canonical store
\* it leaves: user is firebase_service.current_user, roleOk whether the read of
\* the role is answered, deleted the documents whose delete is carried out
\* before the loop ends or raises
clean_parameters_collection(user, roleOk, deleted) ==
    IF backend # "firestore" \/ user = NoUser THEN parameters
    ELSE IF ~roleOk \/ ~is_admin(users, user) THEN parameters
    ELSE [d \in DOMAIN parameters \ deleted |-> parameters[d]]

\* the application is closed and started again: main() constructs VCMOverlay
\* in a new process, whose firebase_service.current_user is None (line 19 of
\* firebase_service.py); __init__ builds the button bound to show_change_log,
\* runs update_auth_status and then clean_parameters_collection (lines 641-655);
\* main() then starts the detection (line 3448)
main ==
    /\ current_user' = NoUser
    /\ dialog' = ClosedDialog
    /\ change_log_button' = "show_change_log"
    /\ \E roleOk \in BOOLEAN, deleted \in SUBSET DOMAIN parameters :
           parameters' = clean_parameters_collection(NoUser, roleOk, deleted)
    /\ last' = Review("main", "", "ok")
    /\ current_parameter_edit_hwnd' \in
           UNION {auto_detect_parameter_edit_control(NoHwnd, a) : a \in OsAnswers}
    /\ last_parameter_text' = NoText
    /\ labels' = NoLabels
    /\ timer' = TRUE
    /\ tick_log' = NoTick
    /\ UNCHANGED <<windows, vcm_editor>>
    /\ contributions' = <<>>
    /\ load_log' = NoLoad
    /\ UNCHANGED <<inflight, tree_vars>>
    /\ UNCHANGED <<backend, users, pending, rejected_parameters, cli, now,
                   profileChanges, nextId>>

---------------------------------------------------------------------------
(* Two clients on the same store *)

\* the store a submit of user u writes to
target(u) == IF is_admin(users, u) THEN "parameters" ELSE "pending"

\* Client c, signed in as u, runs save_parameter_to_firebase up to and
\* including its existence query (firebase_service.py lines 326-393 and
\* 408-417; with the Realtime Database up to the read of the role, line 437):
\* the answer of the query and the enriched record stay in the client
SubmitQuery(c, u, param_id, param_data) ==
    /\ inflight[c].pc = "idle"
    /\ \E dc \in Lookup(parameters, param_id) :
       \E dq \in IF backend = "firestore"
                 THEN QueryByParamId(IF is_admin(users, u) THEN parameters
                                     ELSE pending, param_id)
                 ELSE {NoDocId} :
           LET chk == check_parameter_changes(param_data, TRUE, dc)
           IN  /\ chk.has_changes
               /\ inflight' = [inflight EXCEPT ![c] =
                      [pc |-> "queried", user |-> u, key |-> param_id,
                       store |-> target(u), found |-> dq,
                       data |-> enriched_data(param_data, chk.existing_data,
                                              Email(u)),
                       doc |-> NoDocId]]
    /\ UNCHANGED <<tick_vars, log_vars, tree_vars>>
    /\ UNCHANGED <<backend, users, parameters, pending, rejected_parameters,
                   current_user, change_log_button, dialog, cli, now,
                   profileChanges, nextId, last>>

\* the record a write of client c stores: lines 390 and 401-402, 411-414 and
\* the Realtime Database lines 443-444 and 454-456
race_record(f) ==
    LET email == Email(f.user)
        keyed == IF backend = "firestore" THEN ("param_id" :> f.key) ELSE EmptyDict
        enriched == keyed @@ ("updated_at" :> now) @@ f.data
    IN  IF f.store = "pending"
        THEN ("submitted_by" :> email) @@ ("submitted_at" :> now)
             @@ ("status" :> "pending") @@ enriched
        ELSE IF backend = "firestore" /\ f.found # NoDocId
        THEN enriched
        ELSE ("approved_by" :> email) @@ ("approved_at" :> now) @@ enriched

\* the write that follows the existence query: update() of the document the
\* query returned, which raises when the document is gone, add() when the
\* query returned nothing (lines 395-405 and 419-427), set() of the node with
\* the Realtime Database (lines 447 and 460)
written_store(store, f, rec) ==
    IF backend = "rtdb" THEN Put(store, f.key, rec)
    ELSE IF f.found = NoDocId THEN Put(store, AutoIdNames[nextId + 1], rec)
    ELSE IF f.found \in DOMAIN store
    THEN Put(store, f.found, Update(store[f.found], rec))
    ELSE store

\* client c performs the write of the submit it has begun
SubmitWrite(c) ==
    LET f == inflight[c]
        adds == backend = "firestore" /\ f.found = NoDocId
        rec == race_record(f)
    IN  /\ f.pc = "queried"
        /\ now <= MaxClock
        /\ adds => nextId < MaxDocs
        /\ parameters' = IF f.store = "parameters"
                         THEN written_store(parameters, f, rec) ELSE parameters
        /\ pending' = IF f.store = "pending"
                      THEN written_store(pending, f, rec) ELSE pending
        /\ nextId' = IF adds THEN nextId + 1 ELSE nextId
        /\ now' = now + 1
        /\ last' = Op("submit", f.key, "written", TRUE, TRUE)
        /\ inflight' = [inflight EXCEPT ![c] = Idle]
        /\ UNCHANGED <<tick_vars, log_vars, tree_vars>>
        /\ UNCHANGED <<backend, users, rejected_parameters, current_user,
                       change_log_button, dialog, cli, profileChanges>>

\* Client c, whose dialog was opened by the privileged user u, runs
\* approve_parameter on the pending document d up to and including its
\* existence query on parameters (vcm_overlay.py lines 3311-3328; lines
\* 3346-3357 with the Realtime Database, which has no query)
ApproveQuery(c, u, d) ==
    /\ inflight[c].pc = "idle"
    /\ is_admin(users, u)
    /\ d \in DOMAIN pending
    /\ LET param_data == list_entry(pending, d)
       IN  \E dq \in IF backend = "firestore"
                     THEN QueryByParamId(parameters, param_data["param_id"])
                     ELSE {NoDocId} :
               inflight' = [inflight EXCEPT ![c] =
                   [pc |-> "approving", user |-> u, key |-> param_data["param_id"],
                    store |-> "parameters", found |-> dq,
                    data |-> ("status" :> "approved")
                             @@ Pop(Pop(param_data, "id"), "submitted_at_formatted"),
                    doc |-> d]]
    /\ UNCHANGED <<tick_vars, log_vars, tree_vars>>
    /\ UNCHANGED <<backend, users, parameters, pending, rejected_parameters,
                   current_user, change_log_button, dialog, cli, now,
                   profileChanges, nextId, last>>

\* the update() or add() of approve_parameter (lines 3330-3336), set() with
\* the Realtime Database (line 3360)
ApproveWrite(c) ==
    LET f == inflight[c]
        adds == backend = "firestore" /\ f.found = NoDocId
        rec == ("approved_by" :> Email(f.user)) @@ ("approved_at" :> now) @@ f.data
    IN  /\ f.pc = "approving"
        /\ now <= MaxClock
        /\ adds => nextId < MaxDocs
        /\ parameters' = written_store(parameters, f, rec)
        /\ nextId' = IF adds THEN nextId + 1 ELSE nextId
        /\ now' = now + 1
        /\ last' = Review("dialog_approve", f.key, "written")
        /\ inflight' = [inflight EXCEPT ![c].pc = "approved"]
        /\ UNCHANGED <<tick_vars, log_vars, tree_vars>>
        /\ UNCHANGED <<backend, users, pending, rejected_parameters, current_user,
                       change_log_button, dialog, cli, profileChanges>>

\* the delete() of the pending document that ends approve_parameter (line
\* 3339; line 3363 with the Realtime Database)
ApproveDelete(c) ==
    /\ inflight[c].pc = "approved"
    /\ pending' = Remove(pending, inflight[c].doc)
    /\ last' = Review("dialog_approve", inflight[c].key, "ok")
    /\ inflight' = [inflight EXCEPT ![c] = Idle]
    /\ UNCHANGED <<tick_vars, log_vars, tree_vars>>
    /\ UNCHANGED <<backend, users, parameters, rejected_parameters, current_user,
                   change_log_button, dialog, cli, now, profileChanges, nextId>>

---------------------------------------------------------------------------
(* vcm_overlay.py: find_edit_controls on a window tree *)

\* the VCM Editor window, the root of the tree, and the windows below it
Root == 0
Nodes == 1..MaxNodes

DefaultMaxDepth == 5

\* the tree while nothing is below the editor window but panels
NoTree == [n \in Nodes |-> [parent |-> Root, class |-> "Panel", text |-> TextOther]]

\* the window trees: every window has its parent among the windows created
\* before it, and EnumChildWindows reports windows in the order of creation
Trees ==
    {t \in [Nodes -> [parent : 0..(MaxNodes - 1), class : {"Edit", "Panel"},
                      text : {TextEcm, TextOther}]] :
        \A n \in Nodes : /\ t[n].parent < n
                         /\ (t[n].class = "Panel") => t[n].text = TextOther}

\* the number of levels window n lies below the root
RECURSIVE depth(_, _)
depth(t, n) == IF n = Root THEN 0 ELSE 1 + depth(t, t[n].parent)

\* window n is a child of h or a descendant of one
RECURSIVE below(_, _, _)
below(t, n, h) == n # Root /\ (t[n].parent = h \/ below(t, t[n].parent, h))

\* user32.EnumChildWindows(parent_hwnd, ...): the callback runs for every
\* child window of h and for the child windows of those as well
EnumChildWindows(t, h) ==
    SelectSeq([i \in 1..MaxNodes |-> i], LAMBDA n : below(t, n, h))

\* "edit" in class_name.lower()
is_edit_class(class_name) == class_name = "Edit"

\* list.remove(x): the list without the first occurrence of x
list_remove(l, x) ==
    LET first == CHOOSE i \in 1..Len(l) : l[i] = x /\ \A j \in 1..(i - 1) : l[j] # x
    IN  SubSeq(l, 1, first - 1) \o SubSeq(l, first + 1, Len(l))

\* lines 2049-2058: append, and move to the front when the text starts with
\* a marker
appended_or_promoted(t, l, hwnd) ==
    IF is_parameter_text(t[hwnd].text)
    THEN <<hwnd>> \o list_remove(Append(l, hwnd), hwnd)
    ELSE Append(l, hwnd)

\* VCMOverlay.find_edit_controls(parent_hwnd, max_depth, current_depth)
\* (lines 2030-2076); enum_child_proc runs for the windows hwnds in turn, acc
\* holds edit_controls and seen_handles of this call
RECURSIVE find_edit_controls_in(_, _, _, _)
RECURSIVE enum_child_proc(_, _, _, _, _)
enum_child_proc(t, hwnds, acc, max_depth, current_depth) ==
    IF hwnds = <<>> THEN acc
    ELSE LET hwnd == Head(hwnds)
             own == IF is_edit_class(t[hwnd].class)
                    THEN appended_or_promoted(t, acc.edit_controls, hwnd)
                    ELSE acc.edit_controls
             child_controls ==
                 find_edit_controls_in(t, hwnd, max_depth, current_depth + 1)
         IN  IF hwnd \in acc.seen_handles
             THEN enum_child_proc(t, Tail(hwnds), acc, max_depth, current_depth)
             ELSE enum_child_proc(t, Tail(hwnds),
                      [edit_controls |-> own \o child_controls,
                       seen_handles |-> acc.seen_handles \cup {hwnd}],
                      max_depth, current_depth)

find_edit_controls_in(t, parent_hwnd, max_depth, current_depth) ==
    IF current_depth > max_depth THEN <<>>
    ELSE enum_child_proc(t, EnumChildWindows(t, parent_hwnd),
                         [edit_controls |-> <<>>, seen_handles |-> {}],
                         max_depth, current_depth).edit_controls

\* the windows whose child windows a call of find_edit_controls enumerates:
\* those that get past the depth check of line 2032
RECURSIVE enumerated(_, _, _, _)
enumerated(t, parent_hwnd, max_depth, current_depth) ==
    IF current_depth > max_depth THEN {}
    ELSE {parent_hwnd}
         \cup UNION {enumerated(t, n, max_depth, current_depth + 1) :
                        n \in {x \in Nodes : below(t, x, parent_hwnd)}}

\* the loop of auto_detect_parameter_edit_control (lines 1949-1960): the
\* controls it reads, the last one being the control it takes when that one
\* holds a parameter text
RECURSIVE controls_read(_, _)
controls_read(t, edit_controls) ==
    IF edit_controls = <<>> THEN <<>>
    ELSE IF is_parameter_text(t[Head(edit_controls)].text)
    THEN <<Head(edit_controls)>>
    ELSE <<Head(edit_controls)>> \o controls_read(t, Tail(edit_controls))

NoSearch ==
    [done |-> FALSE, max_depth |-> DefaultMaxDepth, list |-> <<>>,
     enumerated |-> {}, read |-> <<>>]

\* a call find_edit_controls(vcm_editor_hwnd, max_depth) on the tree
FindEditControls(max_depth) ==
    /\ search' = [done |-> TRUE, max_depth |-> max_depth,
                  list |-> find_edit_controls_in(tree, Root, max_depth, 0),
                  enumerated |-> enumerated(tree, Root, max_depth, 0),
                  read |-> <<>>]
    /\ UNCHANGED <<tick_vars, log_vars, inflight, tree>>
    /\ UNCHANGED <<backend, users, parameters, pending, rejected_parameters,
                   current_user, change_log_button, dialog, cli, now,
                   profileChanges, nextId, last>>

\* the discovery on the tree: find_edit_controls with the default depth, then
\* the loop over the list it returned
AutoDetectOnTree ==
    /\ LET edit_controls == find_edit_controls_in(tree, Root, DefaultMaxDepth, 0)
       IN  search' = [done |-> TRUE, max_depth |-> DefaultMaxDepth,
                      list |-> edit_controls,
                      enumerated |-> enumerated(tree, Root, DefaultMaxDepth, 0),
                      read |-> controls_read(tree, edit_controls)]
    /\ UNCHANGED <<tick_vars, log_vars, inflight, tree>>
    /\ UNCHANGED <<backend, users, parameters, pending, rejected_parameters,
                   current_user, change_log_button, dialog, cli, now,
                   profileChanges, nextId, last>>

---------------------------------------------------------------------------
(* The system *)

Init ==
    /\ backend \in {"firestore", "rtdb"}
    /\ users = [u \in Uids |->
                  IF u = "u1"
                  THEN [email |-> Email(u), role |-> "admin", trusted |-> TRUE]
                  ELSE DefaultProfile(u)]
    /\ parameters = EmptyDict
    /\ pending = EmptyDict
    /\ rejected_parameters = EmptyDict
    /\ current_user = NoUser
    /\ change_log_button = "show_change_log"
    /\ dialog = ClosedDialog
    /\ cli = NoCli
    /\ now = 1
    /\ profileChanges = 0
    /\ nextId = 0
    /\ last = NoOp
    /\ windows = [h \in Handles |-> DeadWindow]
    /\ vcm_editor = FALSE
    /\ current_parameter_edit_hwnd = NoHwnd
    /\ last_parameter_text = NoText
    /\ labels = NoLabels
    /\ timer = FALSE
    /\ tick_log = NoTick
    /\ contributions = <<>>
    /\ load_log = NoLoad
    /\ inflight = [c \in Clients |-> Idle]
    /\ tree = NoTree
    /\ search = NoSearch

Next ==
    \/ \E p \in ParamIds, data \in Payloads : Submit(p, data)
    \/ \E u \in Uids : SignIn(u)
    \/ SignOut
    \/ \E u \in Uids : SetProfile(u)
    \/ ClickChangeLogButton
    \/ ApproveParameter
    \/ RejectParameter
    \/ RefreshAllTabs
    \/ CloseDialog
    \/ \E u \in Uids : CliStart(u)
    \/ CliApprove
    \/ CliReject
    \/ CliQuit
    \/ main
    \/ enable_parameter_detection
    \/ Tick
    \/ OpenEditor
    \/ CloseEditor
    \/ \E h \in Handles : WindowChange(h)
    \/ show_change_log

Spec == Init /\ [][Next]_vars

\* the overlay's contributors alone: submissions, sign-in and sign-out, and the
\* edits of the users store
NextSubmit ==
    \/ \E p \in ParamIds, data \in Payloads : Submit(p, data)
    \/ \E u \in Uids : SignIn(u)
    \/ SignOut
    \/ \E u \in Uids : SetProfile(u)

SpecSubmit == Init /\ [][NextSubmit]_vars

\* submissions and the review dialog, with the edits of the users store
NextDialog ==
    \/ \E p \in ParamIds, data \in ReviewPayloads : Submit(p, data)
    \/ \E u \in Uids : SignIn(u)
    \/ SignOut
    \/ \E u \in Uids : SetProfile(u)
    \/ ClickChangeLogButton
    \/ ApproveParameter
    \/ RejectParameter
    \/ RefreshAllTabs
    \/ CloseDialog

SpecDialog == Init /\ [][NextDialog]_vars

\* the overlay over several runs of the application: submissions, sign-in,
\* sign-out, the review dialog, and the application closed and started again
NextStart ==
    \/ \E p \in ParamIds, data \in ReviewPayloads : Submit(p, data)
    \/ \E u \in Uids : SignIn(u)
    \/ SignOut
    \/ main
    \/ ClickChangeLogButton
    \/ ApproveParameter
    \/ RejectParameter
    \/ CloseDialog

SpecStart == Init /\ [][NextStart]_vars

\* the parameter detection: the polling timer, the editor's windows, sign-in
\* and sign-out
NextTick ==
    \/ enable_parameter_detection
    \/ Tick
    \/ OpenEditor
    \/ CloseEditor
    \/ \E h \in Handles : WindowChange(h)
    \/ \E u \in Uids : SignIn(u)
    \/ SignOut

SpecTick == Init /\ [][NextTick]_vars

\* the change log: submissions, sign-in, sign-out and the change log dialog
NextLog ==
    \/ \E p \in ParamIds, data \in ReviewPayloads : Submit(p, data)
    \/ \E u \in Uids : SignIn(u)
    \/ SignOut
    \/ show_change_log

SpecLog == Init /\ [][NextLog]_vars

\* the change log of user u2 over a pending store that holds one record with a
\* details text and no old_value / new_value
InitExtract ==
    /\ backend \in {"firestore", "rtdb"}
    /\ users = [u \in Uids |->
                  IF u = "u1"
                  THEN [email |-> Email(u), role |-> "admin", trusted |-> TRUE]
                  ELSE DefaultProfile(u)]
    /\ parameters = EmptyDict
    /\ \E details \in DetailsTexts :
           pending = ((IF backend = "firestore" THEN AutoIdNames[1] ELSE "12600")
                      :> LegacyRecord(details))
    /\ rejected_parameters = EmptyDict
    /\ current_user = "u2"
    /\ change_log_button = "show_change_log"
    /\ dialog = ClosedDialog
    /\ cli = NoCli
    /\ now = 2
    /\ profileChanges = 0
    /\ nextId = IF backend = "firestore" THEN 1 ELSE 0
    /\ last = NoOp
    /\ windows = [h \in Handles |-> DeadWindow]
    /\ vcm_editor = FALSE
    /\ current_parameter_edit_hwnd = NoHwnd
    /\ last_parameter_text = NoText
    /\ labels = NoLabels
    /\ timer = FALSE
    /\ tick_log = NoTick
    /\ contributions = <<>>
    /\ load_log = NoLoad
    /\ inflight = [c \in Clients |-> Idle]
    /\ tree = NoTree
    /\ search = NoSearch

NextExtract == show_change_log

SpecExtract == InitExtract /\ [][NextExtract]_vars

\* the texts "[TYPE] ID REST" an edit control of the editor shows: every REST
\* of up to MaxRestLen characters of RestChars and the two documented texts
TypeTexts == {<<"E", "C", "M">>, <<"T", "C", "M">>}
IdTexts == {<<"1">>, <<"4", "2">>, <<"1", "2", "6", "0", "0">>}
RestChars == {"-", " ", ":", "a"}
MainSparkRest == <<"-", " ", "M", "a", "i", "n", " ", "S", "p", "a", "r", "k", ":", " ", "H", "i", "g", "h", " ", "o", "c", "t", "a", "n", "e", " ", "s", "p", "a", "r", "k", " ", "t", "a", "b", "l", "e">>
ShiftPointRest == <<"-", " ", "S", "h", "i", "f", "t", " ", "P", "o", "i", "n", "t">>
RestTexts ==
    UNION {[1..n -> RestChars] : n \in 0..MaxRestLen}
    \cup {MainSparkRest, ShiftPointRest}
ParameterText(type, id, rest) ==
    <<"[">> \o type \o <<"]", " ">> \o id \o <<" ">> \o rest

\* the detection tracking an edit control that shows a parameter text, with
\* user u2 signed in
InitParse ==
    /\ backend \in {"firestore", "rtdb"}
    /\ users = [u \in Uids |->
                  IF u = "u1"
                  THEN [email |-> Email(u), role |-> "admin", trusted |-> TRUE]
                  ELSE DefaultProfile(u)]
    /\ parameters = EmptyDict
    /\ pending = EmptyDict
    /\ rejected_parameters = EmptyDict
    /\ current_user = "u2"
    /\ change_log_button = "show_change_log"
    /\ dialog = ClosedDialog
    /\ cli = NoCli
    /\ now = 1
    /\ profileChanges = 0
    /\ nextId = 0
    /\ last = NoOp
    /\ \E type \in TypeTexts, id \in IdTexts, rest \in RestTexts :
           windows = [h \in Handles |->
                        IF h = 1
                        THEN [live |-> TRUE, class |-> "Edit",
                              text |-> ParameterText(type, id, rest)]
                        ELSE DeadWindow]
    /\ vcm_editor = TRUE
    /\ current_parameter_edit_hwnd = 1
    /\ last_parameter_text = NoText
    /\ labels = NoLabels
    /\ timer = TRUE
    /\ tick_log = NoTick
    /\ contributions = <<>>
    /\ load_log = NoLoad
    /\ inflight = [c \in Clients |-> Idle]
    /\ tree = NoTree
    /\ search = NoSearch

NextParse == Tick

SpecParse == InitParse /\ [][NextParse]_vars

\* the pending records of user u2 that ensure_old_new_values may meet: with and
\* without old_value / new_value, the new_<field> / old_<field> pairs, the
\* plain fields, and a details text that holds the extraction pattern
TxtOld == <<"p">>
TxtNew == <<"q">>
PatternDetails == OldNewDetails(<<"1">>, <<"2">>)
Optional(field, values) == {EmptyDict} \cup {(field :> v) : v \in values}
Initial(f) == CASE f = "details" -> "d" [] f = "description" -> "c" [] f = "name" -> "m"
PairOf(f, present) ==
    IF present
    THEN (new_key(f) :> <<"n", Initial(f)>>) @@ (old_key(f) :> <<"o", Initial(f)>>)
    ELSE EmptyDict
StoredRecords ==
    {ov @@ nv @@ PairOf("details", pd) @@ PairOf("description", pc)
        @@ PairOf("name", pn) @@ de @@ ds @@ nm
        @@ [param_id |-> "12600", type |-> "ECM", status |-> "pending",
            submitted_by |-> Email("u2"), submitted_at |-> 1] :
        ov \in Optional("old_value", {EmptyText, TxtOld}),
        nv \in Optional("new_value", {EmptyText, TxtNew}),
        pd \in BOOLEAN, pc \in BOOLEAN, pn \in BOOLEAN,
        de \in Optional("details", {TxtA, PatternDetails}),
        ds \in Optional("description", {TxtB}),
        nm \in Optional("name", {TxtN})}

\* the change log of user u2 over a pending store that holds one such record
InitEnsure ==
    /\ backend \in {"firestore", "rtdb"}
    /\ users = [u \in Uids |->
                  IF u = "u1"
                  THEN [email |-> Email(u), role |-> "admin", trusted |-> TRUE]
                  ELSE DefaultProfile(u)]
    /\ parameters = EmptyDict
    /\ \E rec \in StoredRecords :
           pending = ((IF backend = "firestore" THEN AutoIdNames[1] ELSE "12600")
                      :> rec)
    /\ rejected_parameters = EmptyDict
    /\ current_user = "u2"
    /\ change_log_button = "show_change_log"
    /\ dialog = ClosedDialog
    /\ cli = NoCli
    /\ now = 2
    /\ profileChanges = 0
    /\ nextId = IF backend = "firestore" THEN 1 ELSE 0
    /\ last = NoOp
    /\ windows = [h \in Handles |-> DeadWindow]
    /\ vcm_editor = FALSE
    /\ current_parameter_edit_hwnd = NoHwnd
    /\ last_parameter_text = NoText
    /\ labels = NoLabels
    /\ timer = FALSE
    /\ tick_log = NoTick
    /\ contributions = <<>>
    /\ load_log = NoLoad
    /\ inflight = [c \in Clients |-> Idle]
    /\ tree = NoTree
    /\ search = NoSearch

NextEnsure == show_change_log

SpecEnsure == InitEnsure /\ [][NextEnsure]_vars

\* payloads of either shape: one that carries a tracked field and one that
\* carries none of name, description and details
AnyPayloads == {[type |-> "TCM", description |-> TxtB], [type |-> "ECM"]}

\* submissions of payloads of any shape, sign-in, sign-out and the change log
NextPayload ==
    \/ \E p \in ParamIds, data \in AnyPayloads : Submit(p, data)
    \/ \E u \in Uids : SignIn(u)
    \/ SignOut
    \/ show_change_log

SpecPayload == Init /\ [][NextPayload]_vars

\* submissions, the review dialog and the command-line review tool
NextReview ==
    \/ \E p \in ParamIds, data \in ReviewPayloads : Submit(p, data)
    \/ \E u \in Uids : SignIn(u)
    \/ SignOut
    \/ ClickChangeLogButton
    \/ ApproveParameter
    \/ RejectParameter
    \/ RefreshAllTabs
    \/ CloseDialog
    \/ \E u \in Uids : CliStart(u)
    \/ CliApprove
    \/ CliReject
    \/ CliQuit

SpecReview == Init /\ [][NextReview]_vars

\* two clients that submit and approve, each store operation a step of its own
NextRace ==
    \/ \E c \in Clients, u \in Uids, p \in ParamIds, data \in ReviewPayloads :
           SubmitQuery(c, u, p, data)
    \/ \E c \in Clients : SubmitWrite(c)
    \/ \E c \in Clients, u \in Uids, d \in DOMAIN pending : ApproveQuery(c, u, d)
    \/ \E c \in Clients : ApproveWrite(c)
    \/ \E c \in Clients : ApproveDelete(c)

SpecRace == Init /\ [][NextRace]_vars

\* find_edit_controls and the discovery on every window tree of MaxNodes
\* windows, with the depth bounds up to MaxDepthArg and the default one
InitTree ==
    /\ backend = "firestore"
    /\ users = [u \in Uids |-> DefaultProfile(u)]
    /\ parameters = EmptyDict
    /\ pending = EmptyDict
    /\ rejected_parameters = EmptyDict
    /\ current_user = NoUser
    /\ change_log_button = "show_change_log"
    /\ dialog = ClosedDialog
    /\ cli = NoCli
    /\ now = 1
    /\ profileChanges = 0
    /\ nextId = 0
    /\ last = NoOp
    /\ windows = [h \in Handles |-> DeadWindow]
    /\ vcm_editor = TRUE
    /\ current_parameter_edit_hwnd = NoHwnd
    /\ last_parameter_text = NoText
    /\ labels = NoLabels
    /\ timer = FALSE
    /\ tick_log = NoTick
    /\ contributions = <<>>
    /\ load_log = NoLoad
    /\ inflight = [c \in Clients |-> Idle]
    /\ tree \in Trees
    /\ search = NoSearch

NextTree ==
    \/ \E max_depth \in 1..MaxDepthArg : FindEditControls(max_depth)
    \/ AutoDetectOnTree

SpecTree == InitTree /\ [][NextTree]_vars

\* the texts "[TYPE] TOKEN REST" with every TOKEN of up to MaxTokenLen
\* characters of TokenChars, the empty TOKEN standing for a text that ends
\* after TYPE
TokenChars == {"1", "2", "a", "-"}
TokenTexts == UNION {[1..n -> TokenChars] : n \in 0..MaxTokenLen}
TokenRests == {<<>>, <<" ", "-", " ", "a", ":", "b">>}
TokenText(type, token, rest) ==
    <<"[">> \o type \o <<"]", " ">> \o token \o (IF token = <<>> THEN <<>> ELSE rest)

\* the detection tracking an edit control that shows such a text, with user
\* u2 signed in
InitToken ==
    /\ backend \in {"firestore", "rtdb"}
    /\ users = [u \in Uids |->
                  IF u = "u1"
                  THEN [email |-> Email(u), role |-> "admin", trusted |-> TRUE]
                  ELSE DefaultProfile(u)]
    /\ parameters = EmptyDict
    /\ pending = EmptyDict
    /\ rejected_parameters = EmptyDict
    /\ current_user = "u2"
    /\ change_log_button = "show_change_log"
    /\ dialog = ClosedDialog
    /\ cli = NoCli
    /\ now = 1
    /\ profileChanges = 0
    /\ nextId = 0
    /\ last = NoOp
    /\ \E type \in TypeTexts, token \in TokenTexts, rest \in TokenRests :
           windows = [h \in Handles |->
                        IF h = 1
                        THEN [live |-> TRUE, class |-> "Edit",
                              text |-> TokenText(type, token, rest)]
                        ELSE DeadWindow]
    /\ vcm_editor = TRUE
    /\ current_parameter_edit_hwnd = 1
    /\ last_parameter_text = NoText
    /\ labels = NoLabels
    /\ timer = TRUE
    /\ tick_log = NoTick
    /\ contributions = <<>>
    /\ load_log = NoLoad
    /\ inflight = [c \in Clients |-> Idle]
    /\ tree = NoTree
    /\ search = NoSearch

NextToken == Tick

SpecToken == InitToken /\ [][NextToken]_vars

---------------------------------------------------------------------------
(* Properties *)

\* privileged: the profile of uid in the users store has role admin and
\* trusted true
Privileged(uid) ==
    /\ uid \in DOMAIN users
    /\ "role" \in DOMAIN users[uid] /\ users[uid]["role"] = "admin"
    /\ "trusted" \in DOMAIN users[uid] /\ users[uid]["trusted"] = TRUE

\* the documents of a store that hold a record of parameter key k
KeyDocs(store, k) ==
    IF backend = "firestore"
    THEN {d \in DOMAIN store : "param_id" \in DOMAIN store[d] /\ store[d]["param_id"] = k}
    ELSE {d \in DOMAIN store : d = k}

\* the step is a write of save_parameter_to_firebase
SubmitWrote == now' # now /\ last'.op = "submit"

\* C1: a submit by a signed-in identity that detects a change and completes
\* with every read of the store answered writes the record of the key to the
\* canonical store and nothing to the pending store when the identity's
\* profile has role admin and trusted true, and otherwise writes it to the
\* pending store with status pending and nothing to the canonical store.
C1_SubmitRouting ==
    [][(SubmitWrote /\ last'.role) =>
          LET k == last'.key
              email == Email(current_user)
          IN  IF Privileged(current_user)
              THEN /\ pending' = pending
                   /\ parameters' # parameters
                   /\ \E d \in KeyDocs(parameters', k) :
                          /\ parameters'[d]["updated_by"] = email
                          /\ parameters'[d]["updated_at"] = now
              ELSE /\ parameters' = parameters
                   /\ pending' # pending
                   /\ \E d \in KeyDocs(pending', k) :
                          /\ pending'[d]["status"] = "pending"
                          /\ pending'[d]["submitted_by"] = email
                          /\ pending'[d]["submitted_at"] = now]_vars

\* an identity with role admin that is not trusted has just submitted, and the
\* record sits in the pending store
C1_Witness ==
    /\ last.op = "submit" /\ last.role
    /\ current_user \in DOMAIN users
    /\ users[current_user]["role"] = "admin"
    /\ ~users[current_user]["trusted"]
    /\ \E d \in KeyDocs(pending, last.key) :
          /\ pending[d]["submitted_by"] = Email(current_user)
          /\ pending[d]["submitted_at"] = now - 1

\* C6: submits issued one at a time leave at most one pending entry per
\* parameter key: a submit that writes to the pending store for a key that
\* has an entry overwrites that entry (the payload's fields, submitted_by,
\* submitted_at, status pending) and adds no second one.
C6_OnePendingPerKey ==
    /\ [](\A k \in ParamIds : Cardinality(KeyDocs(pending, k)) <= 1)
    /\ [][(SubmitWrote /\ pending' # pending) =>
             LET k == last'.key
                 old == KeyDocs(pending, k)
             IN  /\ Cardinality(KeyDocs(pending', k)) = 1
                 /\ (old # {}) => /\ KeyDocs(pending', k) = old
                                  /\ DOMAIN pending' = DOMAIN pending
                 /\ \A d \in KeyDocs(pending', k) :
                       /\ pending'[d]["status"] = "pending"
                       /\ pending'[d]["submitted_by"] = Email(current_user)
                       /\ pending'[d]["submitted_at"] = now
                       /\ \A data \in Payloads :
                             (\E e \in Envs : SubmitWith(k, data, 1, e)) =>
                                 \A f \in DOMAIN data : pending'[d][f] = data[f]]_vars

\* a submit has just overwritten the pending entry of its key
C6_Witness ==
    /\ last.op = "submit" /\ last.result \in {"updated_pending", "saved_pending"}
    /\ \E d \in KeyDocs(pending, last.key) :
          /\ pending[d]["submitted_at"] = now - 1
          /\ pending[d]["submitted_at"] > 1
          /\ pending[d]["submitted_by"] = Email(current_user)
          /\ pending[d]["updated_at"] = now - 1

\* s without its leading and trailing whitespace
Trimmed(s) ==
    LET keep == {i \in 1..Len(s) : s[i] \notin Whitespace}
    IN  IF keep = {} THEN <<>>
        ELSE SubSeq(s, CHOOSE i \in keep : \A j \in keep : i <= j,
                       CHOOSE i \in keep : \A j \in keep : j <= i)

\* name, description and details of the payload each equal, trimmed, the field
\* of the record (a field that is missing counts as empty)
SameTrimmed(data, rec) ==
    \A f \in {"name", "description", "details"} :
        Trimmed(IF f \in DOMAIN data THEN data[f] ELSE <<>>)
            = Trimmed(IF f \in DOMAIN rec THEN rec[f] ELSE <<>>)

\* the payload of a submit for key k matches the canonical record of k
Unchanged(k, data) ==
    /\ current_user # NoUser
    /\ KeyDocs(parameters, k) # {}
    /\ \A d \in KeyDocs(parameters, k) : SameTrimmed(data, parameters[d])

C10_AtMostTwoExecutions ==
    [][\A k \in ParamIds, data \in Payloads, e \in Envs, n \in 3..MaxAttempts :
          ~SubmitWith(k, data, n, e)]_vars

\* the step is a write of the review dialog
DialogWrote ==
    /\ last'.op \in {"dialog_approve", "dialog_reject"}
    /\ (parameters' # parameters \/ pending' # pending)

\* C2 as stated: an approve or a reject of the review dialog writes to the
\* canonical store or deletes from the pending store only when the identity
\* the dialog acts for is privileged at that moment.
C2_ReviewNeedsPrivilege ==
    [][DialogWrote => Privileged(dialog.user)]_vars

\* C3: a completed approve of the review dialog on the pending record of key k
\* removes that record from the pending store and leaves exactly one
\* canonical record for k, which carries the pending record's fields and
\* approved_by / approved_at; a canonical record that k had is updated in
\* place, otherwise one is created.
C3_ApproveMoves ==
    [][(now' # now /\ last'.op = "dialog_approve" /\ last'.result = "ok") =>
          LET k == last'.key
          IN  \E d \in KeyDocs(pending, k) \cap DOMAIN dialog.parameters :
                /\ DOMAIN pending' = DOMAIN pending \ {d}
                /\ \A x \in DOMAIN pending' : pending'[x] = pending[x]
                /\ Cardinality(KeyDocs(parameters', k)) = 1
                /\ \A c \in KeyDocs(parameters', k) :
                      /\ \A f \in DOMAIN pending[d] \ {"status"} :
                            /\ f \in DOMAIN parameters'[c]
                            /\ parameters'[c][f] = pending[d][f]
                      /\ {"approved_by", "approved_at"} \subseteq DOMAIN parameters'[c]
                      /\ parameters'[c]["approved_by"] = Email(dialog.user)
                      /\ parameters'[c]["approved_at"] = now
                /\ IF KeyDocs(parameters, k) # {}
                   THEN /\ KeyDocs(parameters', k) = KeyDocs(parameters, k)
                        /\ DOMAIN parameters' = DOMAIN parameters
                   ELSE Cardinality(DOMAIN parameters')
                            = Cardinality(DOMAIN parameters) + 1]_vars

\* an approve has just updated in place the canonical record that the key had
C3_Witness ==
    /\ last.op = "dialog_approve" /\ last.result = "ok"
    /\ now = 4
    /\ KeyDocs(pending, last.key) = {}
    /\ Cardinality(DOMAIN parameters) = 1
    /\ \E c \in KeyDocs(parameters, last.key) :
          /\ parameters[c]["approved_at"] = 3
          /\ parameters[c]["submitted_at"] = 2
          /\ parameters[c]["status"] = "approved"

\* C4 as stated: after a reject, of the review dialog or of the command-line
\* tool, the rejected record is held in the rejected store with rejected_by,
\* rejected_at and the reason.
C4_RejectedIsKept ==
    (last.op \in {"dialog_reject", "cli_reject"} /\ last.result = "ok") =>
        \E r \in KeyDocs(rejected_parameters, last.key) :
            {"rejected_by", "rejected_at", "rejection_reason"}
                \subseteq DOMAIN rejected_parameters[r]

\* C5: a reject, of the review dialog or of the command-line tool, carried out
\* or failed, leaves the canonical store as it was.
C5_RejectKeepsCanonical ==
    [][(RejectParameter \/ CliReject) => parameters' = parameters]_vars

\* the command-line tool has just rejected an entry while the canonical store
\* holds a record
C5_Witness ==
    /\ last.op = "cli_reject"
    /\ DOMAIN parameters # {}
    /\ \E d \in DOMAIN pending :
          /\ "rejected_at" \in DOMAIN pending[d]
          /\ pending[d]["rejected_at"] = now - 1

\* the status of a record is approved or rejected
Terminal(rec) ==
    "status" \in DOMAIN rec /\ rec["status"] \in {"approved", "rejected"}

\* C8 as stated: a contribution whose status is approved or rejected keeps
\* that status and its fields whatever is submitted, approved or rejected.
C8_TerminalIsFinal ==
    [][\A d \in DOMAIN pending :
          Terminal(pending[d]) =>
              (d \in DOMAIN pending' /\ pending'[d] = pending[d])]_vars

\* key k has a record in the pending store and one in the canonical store
Both(pend, params, k) == KeyDocs(pend, k) # {} /\ KeyDocs(params, k) # {}

RoleLookupFails(e) == ~e.role /\ e.failAt = "none"

\* C11 as stated: a submit of a signed-in identity whose role lookup raises and
\* that detects a change writes the record to the pending store with status
\* pending and leaves the canonical store as it is.
C11_RoleFailureGoesToPending ==
    (current_user # NoUser) =>
        \A k \in ParamIds, data \in Payloads, e \in Envs :
        \A dc \in Lookup(parameters, k) :
        \A dqn \in QueryByParamId(parameters, k) :
        \A dqp \in QueryByParamId(pending, k) :
            (/\ RoleLookupFails(e)
             /\ check_parameter_changes(data, e.check, dc).has_changes) =>
                LET o == save_once(k, data, e, dc, dqn, dqp)
                IN  /\ o.parameters = parameters
                    /\ \E d \in KeyDocs(o.pending, k) :
                          /\ o.pending[d]["status"] = "pending"
                          /\ o.pending[d]["submitted_by"] = Email(current_user)
                          /\ o.pending[d]["submitted_at"] = now

\* C12: no step of the workflow (start of the application, sign-in, sign-out,
\* submit, approve and reject of the review dialog) removes a document from
\* the canonical store, and the start of the application, whose clean-up finds
\* nobody signed in, leaves the canonical store as it is.
C12_CanonicalNeverDeleted ==
    /\ [][DOMAIN parameters \subseteq DOMAIN parameters']_vars
    /\ [][main => parameters' = parameters]_vars

\* the application has just been started on Firestore while the canonical
\* store holds a record and the users store holds a trusted admin
C12_Witness ==
    /\ last.op = "main"
    /\ backend = "firestore"
    /\ DOMAIN parameters # {}
    /\ \E u \in Uids : is_admin(users, u)

\* the text begins with one of the module markers [ECM] and [TCM]
HasMarker(t) ==
    /\ Len(t) >= 5
    /\ t[1] = "[" /\ t[5] = "]"
    /\ <<t[2], t[3], t[4]>> \in {<<"E", "C", "M">>, <<"T", "C", "M">>}

\* handle h is a live edit control that shows a text with a module marker
LiveMarkerEdit(h) ==
    /\ h \in Handles
    /\ windows[h].live /\ windows[h].class = "Edit" /\ HasMarker(windows[h].text)

\* the answers of a desktop on which no query raises
AllAnswered(a) ==
    /\ a.is_window /\ a.enum_windows
    /\ a.read = {} /\ a.class_name = {} /\ a.enum_child = Handles

\* C13: a tick that finds the tracked handle dead, or its text without a
\* module marker, parses nothing and runs the discovery; the tracked handle
\* changes only to a live edit control with a marker text, and does so as soon
\* as the discovery, with all its queries answered, sees one.
C13_InvalidHandleRediscovers ==
    (timer /\ current_parameter_edit_hwnd # NoHwnd) =>
        LET hwnd == current_parameter_edit_hwnd
        IN  \A a \in OsAnswers :
            (/\ a.is_window /\ hwnd \notin a.read
             /\ (~windows[hwnd].live \/ ~HasMarker(windows[hwnd].text))) =>
                \A o \in check_parameter_edit_control(a) :
                    /\ ~o.parsed /\ o.detect
                    /\ o.last = last_parameter_text /\ o.labels = labels
                    /\ (o.hwnd # hwnd) => LiveMarkerEdit(o.hwnd)
                    /\ (/\ AllAnswered(a) /\ vcm_editor
                        /\ \E h \in Handles : LiveMarkerEdit(h))
                           => LiveMarkerEdit(o.hwnd)

\* a tick has just found the tracked control destroyed and has taken up
\* another live edit control with a marker text
C13_Witness ==
    /\ tick_log.ticked /\ tick_log.detect /\ ~tick_log.parsed
    /\ tick_log.old_handle \in Handles
    /\ tick_log.old_handle # current_parameter_edit_hwnd
    /\ ~windows[tick_log.old_handle].live
    /\ LiveMarkerEdit(current_parameter_edit_hwnd)

\* C14: whatever OS query raises during a tick, no exception leaves the
\* handler, and a query about the tracked handle that raises makes the tick
\* run the discovery as for an invalid handle; the timer is active after
\* every tick, so that the next tick runs.
C14_TickNeverRaises ==
    /\ timer =>
            \A a \in OsAnswers : \A o \in check_parameter_edit_control(a) :
                /\ ~o.escaped
                /\ (/\ current_parameter_edit_hwnd # NoHwnd
                    /\ \/ ~a.is_window
                       \/ /\ windows[current_parameter_edit_hwnd].live
                          /\ current_parameter_edit_hwnd \in a.read)
                       => (o.detect /\ ~o.parsed)
    /\ tick_log.ticked => timer

\* a tick during which an OS query raised has run the discovery for a tracked
\* handle and the timer is active
C14_Witness ==
    /\ tick_log.ticked /\ tick_log.raised /\ tick_log.detect
    /\ tick_log.old_handle # NoHwnd
    /\ timer

\* C15: a tick that reads from the tracked control the text last observed
\* parses nothing and leaves the last observed text and the labels as they
\* are; a tick parses only a text that differs from the last observed one.
C15_SameTextIsNoOp ==
    (/\ timer /\ current_parameter_edit_hwnd # NoHwnd
     /\ windows[current_parameter_edit_hwnd].live) =>
        LET text == windows[current_parameter_edit_hwnd].text
        IN  \A a \in OsAnswers :
            (a.is_window /\ current_parameter_edit_hwnd \notin a.read) =>
                \A o \in check_parameter_edit_control(a) :
                    /\ (text = last_parameter_text) =>
                          /\ ~o.parsed
                          /\ o.last = last_parameter_text
                          /\ o.labels = labels
                    /\ o.parsed => text # last_parameter_text

\* a tick has just read again the text whose name is on display and has
\* parsed nothing
C15_Witness ==
    /\ tick_log.ticked /\ ~tick_log.parsed /\ ~tick_log.detect
    /\ current_parameter_edit_hwnd # NoHwnd
    /\ windows[current_parameter_edit_hwnd].live
    /\ windows[current_parameter_edit_hwnd].text = last_parameter_text
    /\ labels.param_name_label # <<>>

\* the documents of a store whose field names the identity of user u
Mine(store, field, u) ==
    {d \in DOMAIN store : Has(store[d], field) /\ store[d][field] = Email(u)}

\* the contributions of user u the three stores hold, each with the status of
\* its store
Held(u) ==
    ({"pending"} \X Mine(pending, "submitted_by", u))
    \cup ({"approved"} \X Mine(parameters, "updated_by", u))
    \cup ({"rejected"} \X Mine(rejected_parameters, "submitted_by", u))

\* list l holds exactly the contributions of u, each once and tagged with the
\* status of its store, and its timestamps never increase
ExactAndOrdered(l, u) ==
    /\ {<<l[i]["status"], l[i]["id"]>> : i \in DOMAIN l} = Held(u)
    /\ Len(l) = Cardinality(Held(u))
    /\ \A i \in 1..(Len(l) - 1) : sort_key(l[i]) >= sort_key(l[i + 1])

\* C16: whatever the stores answer, the list get_user_contributions returns for
\* the signed-in user holds exactly that user's pending, canonical and rejected
\* records, each tagged with the status of its store, in an order in which the
\* timestamps never increase
C16_ListIsExactAndOrdered ==
    (current_user # NoUser) =>
        \A failAt \in LoadFailures :
            ExactAndOrdered(get_user_contributions(current_user, failAt), current_user)

\* w occurs in v as a word of its own: between whitespace or the ends of v
has_word(v, w) ==
    \E i \in 1..(Len(v) - Len(w) + 1) :
        /\ SubSeq(v, i, i + Len(w) - 1) = w
        /\ i = 1 \/ v[i - 1] \in Whitespace
        /\ i + Len(w) - 1 = Len(v) \/ v[i + Len(w)] \in Whitespace

\* a value the extraction claim speaks of: non-empty, no surrounding
\* whitespace, no separate word "to", no marker "New Value:"
Plain(v) ==
    /\ v # EmptyText
    /\ strip(v) = v
    /\ ~has_word(v, ToMarker)
    /\ ~contains(v, NewValueMarker)

\* C18: a contribution loaded from a record whose details text is
\* "Old Value: X, New Value: Y" or "Changed from X to Y", with X and Y non-empty,
\* without surrounding whitespace, without the separate word "to" and without
\* the marker "New Value:", has old_value X and new_value Y
C18_ExtractionYieldsValues ==
    \A i \in DOMAIN contributions :
    \A x \in OldValues, y \in NewValues :
        (/\ Plain(x) /\ Plain(y)
         /\ contributions[i]["details"] \in {OldNewDetails(x, y), ChangedDetails(x, y)})
        => /\ contributions[i]["old_value"] = x
           /\ contributions[i]["new_value"] = y

\* a name without one leading "- " or "-"
Undashed(name) ==
    IF Len(name) >= 2 /\ name[1] = "-" /\ name[2] = " "
    THEN SubSeq(name, 3, Len(name))
    ELSE IF Len(name) >= 1 /\ name[1] = "-" THEN SubSeq(name, 2, Len(name))
    ELSE name

\* the name and the description the parse rules give a REST: the parts before
\* and after the first ':', trimmed, the name without one leading dash; all of
\* REST as the name when it holds no ':'
NameOf(rest) == strip(Undashed(strip(split_once(rest, Colon)[1])))
DescOf(rest) ==
    IF contains(rest, Colon) THEN strip(split_once(rest, Colon)[2]) ELSE EmptyText

\* C17: the labels a tick has parsed from a text "[TYPE] ID REST" show TYPE,
\* ID, the part of REST before the first ':' (all of REST without one) trimmed
\* and without one leading "- " or "-" as the name, and the trimmed part after
\* the ':' (nothing without one) as the description
C17_ParsedFields ==
    tick_log.parsed =>
        \A type \in TypeTexts, id \in IdTexts, rest \in RestTexts :
            (last_parameter_text = ParameterText(type, id, rest))
            => labels = [param_type_label |-> type, param_id_label |-> id,
                         param_name_label |-> NameOf(rest),
                         param_desc_label |-> DescOf(rest)]

\* a tick has parsed "[ECM] 12600 - Main Spark: High octane spark table" into
\* name "Main Spark" and description "High octane spark table"
C17_Witness ==
    /\ tick_log.parsed
    /\ last_parameter_text
           = ParameterText(<<"E", "C", "M">>, <<"1", "2", "6", "0", "0">>, MainSparkRest)
    /\ labels.param_name_label = <<"M", "a", "i", "n", " ", "S", "p", "a", "r", "k">>
    /\ labels.param_desc_label = <<"H", "i", "g", "h", " ", "o", "c", "t", "a", "n", "e", " ", "s", "p", "a", "r", "k", " ", "t", "a", "b", "l", "e">>
    /\ labels.param_id_label = <<"1", "2", "6", "0", "0">>

\* the field of a payload that old_value and new_value follow
PrimaryField(data) ==
    IF Has(data, "details") THEN "details"
    ELSE IF Has(data, "description") THEN "description" ELSE "name"

\* C19: the record a submit writes for a key carries as old_value the value
\* the canonical record of the key held before that submit wrote (its details,
\* else description, else name, as the payload carries them), and the empty
\* string when the canonical store held no record of the key
C19_OldValueIsSnapshot ==
    [][\A k \in ParamIds, data \in Payloads :
          (/\ SubmitWrote
           /\ \E n \in 1..MaxAttempts, e \in Envs : SubmitWith(k, data, n, e))
          => \A store \in {parameters', pending'} :
             \A d \in KeyDocs(store, k) :
                 (store[d]["updated_at"] = now)
                 => /\ Has(store[d], "old_value")
                    /\ IF KeyDocs(parameters, k) = {}
                       THEN store[d]["old_value"] = EmptyText
                       ELSE \E c \in KeyDocs(parameters, k) :
                               store[d]["old_value"]
                                   = Get(parameters[c], PrimaryField(data), EmptyText)]_vars

\* C20: after a submit by a privileged identity that wrote, the canonical
\* record it wrote for the key carries approved_by equal to that identity and
\* the approved_at of this submit, whether the submit created the record or
\* updated it in place
C20_PrivilegedSubmitStamps ==
    [][(SubmitWrote /\ last'.role /\ Privileged(current_user)) =>
          \A d \in KeyDocs(parameters', last'.key) :
              (parameters'[d]["updated_at"] = now)
              => /\ Has(parameters'[d], "approved_by")
                 /\ parameters'[d]["approved_by"] = Email(current_user)
                 /\ Has(parameters'[d], "approved_at")
                 /\ parameters'[d]["approved_at"] = now]_vars

\* C21: a submit for the key (module type, param_id) leaves every record of
\* another module type in the pending and in the canonical store as it is, also
\* a record with the same param_id
C21_WriteKeepsOtherModule ==
    [][\A k \in ParamIds, data \in Payloads :
          (/\ SubmitWrote
           /\ \E n \in 1..MaxAttempts, e \in Envs : SubmitWith(k, data, n, e))
          => /\ \A d \in DOMAIN parameters :
                    (Get(parameters[d], "type", "") # data["type"])
                    => d \in DOMAIN parameters' /\ parameters'[d] = parameters[d]
             /\ \A d \in DOMAIN pending :
                    (Get(pending[d], "type", "") # data["type"])
                    => d \in DOMAIN pending' /\ pending'[d] = pending[d]]_vars

\* the record has a non-empty value of the field
Filled(rec, f) == Has(rec, f) /\ truthy(rec[f])

\* the first of the new_<field> / old_<field> pairs the record has, in the
\* order details, description, name; "" when it has none
FirstPair(rec) ==
    IF Has(rec, "new_details") /\ Has(rec, "old_details") THEN "details"
    ELSE IF Has(rec, "new_description") /\ Has(rec, "old_description")
    THEN "description"
    ELSE IF Has(rec, "new_name") /\ Has(rec, "old_name") THEN "name"
    ELSE ""

\* C22: a contribution made of a stored record that has neither a non-empty
\* old_value nor a non-empty new_value carries the values of the first pair
\* the record has (new_details / old_details, else new_description /
\* old_description, else new_name / old_name); no later step replaces them
C22_FirstPairWins ==
    \A i \in DOMAIN contributions :
        LET rec == pending[contributions[i]["id"]]
            f == FirstPair(rec)
        IN  (~Filled(rec, "old_value") /\ ~Filled(rec, "new_value") /\ f # "")
            => /\ contributions[i]["new_value"] = rec[new_key(f)]
               /\ contributions[i]["old_value"] = rec[old_key(f)]

\* C23: every contribution the change log has loaded carries old_value and
\* new_value, and so does every record a submit writes to the canonical or the
\* pending store, whatever fields its payload carries
C23_BothKeysAlways ==
    /\ [](\A i \in DOMAIN contributions :
              Has(contributions[i], "old_value") /\ Has(contributions[i], "new_value"))
    /\ [][SubmitWrote =>
             \A store \in {parameters', pending'} :
             \A d \in KeyDocs(store, last'.key) :
                 (store[d]["updated_at"] = now)
                 => Has(store[d], "old_value") /\ Has(store[d], "new_value")]_vars

\* a tracked field the payload carries differs, trimmed, from the value of the
\* stored record, a field the record lacks counting as the empty string
Differs(data, rec) ==
    \E f \in important_fields :
        /\ Has(data, f)
        /\ stripped(data[f]) # stripped(Get(rec, f, EmptyText))

\* C24: for a signed-in user, whenever the canonical record read for the key
\* differs from the payload in a tracked field, a missing field counting as
\* the empty string, the execution of save_parameter_to_firebase does not
\* return NO_CHANGES
C24_NoChangesOnlyIfSame ==
    (current_user # NoUser) =>
        \A k \in ParamIds, data \in Payloads, e \in Envs :
        \A dc \in Lookup(parameters, k) :
        \A dqn \in QueryByParamId(parameters, k) :
        \A dqp \in QueryByParamId(pending, k) :
            (e.check /\ dc # NoDocId /\ Differs(data, parameters[dc]))
            => save_once(k, data, e, dc, dqn, dqp).result # "NO_CHANGES"

\* C25: with two clients whose existence queries and writes interleave, in
\* every reachable state the pending store and the canonical store each hold
\* at most one record of every parameter key
C25_OneRecordPerKeyUnderRace ==
    \A k \in ParamIds :
        /\ Cardinality(KeyDocs(pending, k)) <= 1
        /\ Cardinality(KeyDocs(parameters, k)) <= 1

\* C26: the list a call of find_edit_controls returns holds every control
\* handle at most once
C26_NoHandleTwice ==
    search.done =>
        \A i, j \in DOMAIN search.list :
            (search.list[i] = search.list[j]) => i = j

\* the control's text starts with a module marker
Marked(h) == is_parameter_text(tree[h].text)

\* C27: in the list a call of find_edit_controls returns every edit control
\* whose text starts with a module marker stands before every edit control
\* whose text does not, and a discovery whose list holds a control with marker
\* text reads no control before it takes one
C27_MarkedControlsFirst ==
    search.done =>
        /\ \A i, j \in DOMAIN search.list :
               (Marked(search.list[i]) /\ ~Marked(search.list[j])) => i < j
        /\ (search.read # <<>> /\ \E i \in DOMAIN search.list : Marked(search.list[i]))
               => (Len(search.read) = 1 /\ Marked(search.read[1]))

\* C28: a call find_edit_controls(root, max_depth) returns no control that
\* lies more than max_depth levels below the root, and enumerates the children
\* of no window that lies max_depth levels or more below the root
C28_DepthBound ==
    search.done =>
        /\ \A i \in DOMAIN search.list :
               depth(tree, search.list[i]) <= search.max_depth
        /\ \A w \in search.enumerated : depth(tree, w) < search.max_depth

\* the decimal digits a token starts with
RECURSIVE LeadingDigits(_)
LeadingDigits(token) ==
    IF token = <<>> \/ Head(token) \notin Digits THEN <<>>
    ELSE <<Head(token)>> \o LeadingDigits(Tail(token))

\* C29: a tick that has parsed a text "[TYPE] TOKEN ..." raised nothing and
\* shows TYPE as the type and the longest prefix of decimal digits of TOKEN as
\* the id: no id when TOKEN starts with no digit or the text ends after TYPE
C29_IdIsDigitPrefix ==
    tick_log.parsed =>
        /\ ~tick_log.raised
        /\ timer
        /\ \A type \in TypeTexts, token \in TokenTexts, rest \in TokenRests :
               (last_parameter_text = TokenText(type, token, rest))
               => /\ labels.param_type_label = type
                  /\ labels.param_id_label = LeadingDigits(token)

\* a tick has parsed "[ECM] a1 - a:b": it shows the type ECM and no id
C29_Witness ==
    /\ tick_log.parsed
    /\ last_parameter_text
           = TokenText(<<"E", "C", "M">>, <<"a", "1">>, <<" ", "-", " ", "a", ":", "b">>)
    /\ labels.param_type_label = <<"E", "C", "M">>
    /\ labels.param_id_label = <<>>

\* the detection is enabled, a user is signed in and the tracked control is a
\* live window that holds a text with a module marker
Ready ==
    /\ timer
    /\ current_user # NoUser
    /\ current_parameter_edit_hwnd # NoHwnd
    /\ windows[current_parameter_edit_hwnd].live
    /\ is_parameter_text(windows[current_parameter_edit_hwnd].text)

\* C30: whenever the detection is enabled, a user is signed in and the tracked
\* control holds a parameter text, a tick whose queries are all answered
\* either shows the type, id, name and description parsed from that text or
\* changes what the overlay holds, so that the fields are shown after a
\* bounded number of ticks
C30_TicksShowParsedFields ==
    Ready =>
        \A a \in {x \in OsAnswers : AllAnswered(x)} :
        \A o \in check_parameter_edit_control(a) :
            \/ o.labels = parsed_labels(windows[current_parameter_edit_hwnd].text)
            \/ <<o.hwnd, o.last, o.labels>>
                   # <<current_parameter_edit_hwnd, last_parameter_text, labels>>

============================================================================
